---- MODULE Spec2Model ----
(***************************************************************************)
(* model-one: a schema-driven model layer over a SQLite-family engine (D1). *)
(* The module models the Model class (codec, statement generation, CRUD,    *)
(* soft delete / restore, instance save/update/delete) together with the    *)
(* table the generated statements run against.                              *)
(***************************************************************************)
EXTENDS Integers, Sequences, FiniteSets, TLC

(***************************************************************************)
(* Bounds of the exploration.                                               *)
(***************************************************************************)
MaxRows == 2
MaxTime == 1
MaxOps == 3

(***************************************************************************)
(* JavaScript values.  Every value is a record [k, s]: k is the runtime     *)
(* shape (typeof, with null, Date and plain objects/arrays told apart) and  *)
(* s is the text that names the value (the digits of a number, the JSON     *)
(* text of an object, the ISO text of a Date).                              *)
(***************************************************************************)
Undefined == [k |-> "undefined", s |-> ""]
Null == [k |-> "null", s |-> ""]
Str(s) == [k |-> "string", s |-> s]
Num(s) == [k |-> "number", s |-> s]
Bool(b) == [k |-> "boolean", s |-> IF b THEN "true" ELSE "false"]
Obj(s) == [k |-> "object", s |-> s]
DateObj(s) == [k |-> "Date", s |-> s]
Thrown == [k |-> "throw", s |-> ""]

\* Boolean(value)
Truthy(v) ==
  CASE v.k = "undefined" -> FALSE
    [] v.k = "null" -> FALSE
    [] v.k = "string" -> v.s # ""
    [] v.k = "number" -> v.s \notin {"0", "NaN"}
    [] v.k = "boolean" -> v.s = "true"
    [] OTHER -> TRUE

\* The values the application hands to a column of each logical type.
StringVals == <<Str("A"), Str("B")>>
NumberVals == <<Num("7"), Num("0")>>
BooleanVals == <<Bool(TRUE), Bool(FALSE)>>
JsonVals == <<Obj("[\"es\"]"), Obj("{\"a\":1}")>>
DateVals == <<DateObj("2024-01-01T00:00:00.000Z"), Str("2024-06-01")>>

ValsOfType(t) ==
  CASE t = "string" -> StringVals
    [] t = "number" -> NumberVals
    [] t = "boolean" -> BooleanVals
    [] t = "jsonb" -> JsonVals
    [] t = "date" -> DateVals

Range(q) == {q[i] : i \in 1..Len(q)}

ColumnTypes == {"string", "number", "boolean", "jsonb", "date"}

\* JSON.stringify(value) for a value that is not undefined
JSONstringify(v) ==
  CASE v.k = "string" -> "\"" \o v.s \o "\""
    [] v.k = "Date" -> "\"" \o v.s \o "\""
    [] v.k = "null" -> "null"
    [] OTHER -> v.s

\* The JSON documents the model knows how to read back.
JsonDomain == {Null} \cup Range(StringVals) \cup Range(NumberVals) \cup Range(BooleanVals)
              \cup Range(JsonVals) \cup {Str(""), Str("null"), Num("1")}

\* JSON.parse(text): the value whose JSON text it is; a SyntaxError otherwise
JSONparse(t) ==
  IF \E v \in JsonDomain : JSONstringify(v) = t
    THEN CHOOSE v \in JsonDomain : JSONstringify(v) = t
    ELSE Thrown

\* `${value}`
TemplateString(v) ==
  CASE v.k = "undefined" -> "undefined"
    [] v.k = "null" -> "null"
    [] v.k = "object" -> IF v.s = "[\"es\"]" THEN "es" ELSE "[object Object]"
    [] OTHER -> v.s

(***************************************************************************)
(* Field maps (plain JavaScript objects) are functions from the owned keys  *)
(* to values.                                                               *)
(***************************************************************************)
EmptyMap == [x \in {} |-> Null]
Get(data, key) == IF key \in DOMAIN data THEN data[key] ELSE Undefined
\* { ...a, ...b }
Spread(a, b) == [x \in (DOMAIN a) \cup (DOMAIN b) |-> IF x \in DOMAIN b THEN b[x] ELSE a[x]]
Without(a, key) == [x \in (DOMAIN a) \ {key} |-> a[x]]

(***************************************************************************)
(* The codec.                                                               *)
(***************************************************************************)
getDefaultSQLiteType(columnType) ==
  CASE columnType = "string" -> "TEXT"
    [] columnType = "number" -> "REAL"
    [] columnType = "boolean" -> "INTEGER"
    [] columnType = "jsonb" -> "TEXT"
    [] columnType = "date" -> "TEXT"
    [] OTHER -> "TEXT"

\* Faulty variant of processValueForStorage: a Date is not converted
processValueForStorage_keepdate(value, columnType) ==
  IF value.k \in {"null", "undefined"}
    THEN IF columnType = "jsonb" THEN Str("null") ELSE Null
    ELSE CASE columnType = "boolean" -> IF Truthy(value) THEN Num("1") ELSE Num("0")
           [] columnType = "jsonb" -> Str(JSONstringify(value))
           [] OTHER -> value

processValueForStorage(value, columnType) ==
  IF value.k \in {"null", "undefined"}
    THEN IF columnType = "jsonb" THEN Str("null") ELSE Null
    ELSE CASE columnType = "boolean" -> IF Truthy(value) THEN Num("1") ELSE Num("0")
           [] columnType = "jsonb" -> Str(JSONstringify(value))
           [] columnType = "date" -> IF value.k = "Date" THEN Str(value.s) ELSE value
           [] OTHER -> value

\* Number(value)
ToNumber(v) ==
  CASE v.k = "number" -> v
    [] v.k = "boolean" -> IF v.s = "true" THEN Num("1") ELSE Num("0")
    [] v.k = "string" -> IF v.s \in {"0", "1", "7"} THEN Num(v.s)
                         ELSE IF v.s = "" THEN Num("0") ELSE Num("NaN")
    [] OTHER -> Num("NaN")

\* Faulty variant of processValueFromStorage: a boolean column is handed
\* back as the stored integer
processValueFromStorage_rawbool(value, columnType) ==
  IF value.k \in {"null", "undefined"}
    THEN Null
    ELSE CASE columnType = "number" -> ToNumber(value)
           [] columnType = "jsonb" ->
                IF value = Str("") \/ value = Str("null") THEN Null
                ELSE IF value.k = "string" THEN JSONparse(value.s) ELSE value
           [] OTHER -> value

processValueFromStorage(value, columnType) ==
  IF value.k \in {"null", "undefined"}
    THEN Null
    ELSE CASE columnType = "boolean" -> Bool(Truthy(value))
           [] columnType = "number" -> ToNumber(value)
           [] columnType = "jsonb" ->
                IF value = Str("") \/ value = Str("null") THEN Null
                ELSE IF value.k = "string" THEN JSONparse(value.s) ELSE value
           [] OTHER -> value

(***************************************************************************)
(* State.                                                                   *)
(*   schema  the table schema of the model class (fixed after construction) *)
(*   store   the rows of the table, in rowid order                          *)
(*   now     the engine clock read by datetime('now')                       *)
(*   inst    the instance handles the application holds                     *)
(*   ops     number of facade calls made so far                             *)
(*   log     history: the calls that changed the table, oldest first, each  *)
(*           with the id of the row its statement addressed                 *)
(***************************************************************************)
VARIABLES schema, store, now, inst, ops, log
vars == <<schema, store, now, inst, ops, log>>

Handles == {1, 2}

(***************************************************************************)
(* Schema.                                                                  *)
(***************************************************************************)
\* class Schema: the columns of the tests' tables (id, a string column and
\* one further column of any logical type) and the two behaviour flags
Schema(extraType, timestamps, softDeletes) ==
  [columns |-> << [name |-> "id", type |-> "string"],
                  [name |-> "name", type |-> "string"],
                  [name |-> "extra", type |-> extraType] >>,
   timestamps |-> timestamps,
   softDeletes |-> softDeletes]

\* new Schema(props): props holds the flags the caller passes; timestamps
\* defaults to true and softDeletes to false
SchemaOf(extraType, props) ==
  Schema(extraType,
         IF "timestamps" \in DOMAIN props THEN props["timestamps"] ELSE TRUE,
         IF "softDeletes" \in DOMAIN props THEN props["softDeletes"] ELSE FALSE)

ColumnNames(sch) == {sch.columns[i].name : i \in 1..Len(sch.columns)}
ColumnType(sch, name) ==
  sch.columns[CHOOSE i \in 1..Len(sch.columns) : sch.columns[i].name = name].type

\* The persisted layout: id, the application columns, created_at/updated_at
\* when timestamps are on, deleted_at when soft deletes are on.
TableCols(sch) ==
  {"id"} \cup ColumnNames(sch)
    \cup (IF sch.timestamps THEN {"created_at", "updated_at"} ELSE {})
    \cup (IF sch.softDeletes THEN {"deleted_at"} ELSE {})

(***************************************************************************)
(* SQL literals, SQL values and statements.                                 *)
(***************************************************************************)
LitNull == [q |-> "NULL", s |-> ""]
LitQuoted(s) == [q |-> "quoted", s |-> s]
LitBare(s) == [q |-> "bare", s |-> s]
LitNow == [q |-> "now", s |-> ""]

SqlNull == [k |-> "NULL", s |-> ""]
SqlText(s) == [k |-> "TEXT", s |-> s]
SqlNum(s) == [k |-> "NUM", s |-> s]

\* datetime('now') at engine time t
TimeText(t) == "T" \o ToString(t)

NoStmt == [op |-> "NONE", cols |-> <<>>, lits |-> <<>>, whereCol |-> "", whereVal |-> "",
           live |-> FALSE, limit1 |-> FALSE, returning |-> FALSE]

(***************************************************************************)
(* Statement generation.                                                    *)
(***************************************************************************)
\* deserializeData, insert branch: the text pushed to `values` for a column
InsertValueText(pv) ==
  CASE pv.k = "null" -> "NULL"
    [] pv.k = "number" -> pv.s
    [] pv.k = "string" -> pv.s
    [] OTHER -> JSONstringify(pv)

\* Faulty variant of UpdateLiteral: a null value written as quoted text
UpdateLiteral_text(pv) ==
  CASE pv.k = "null" -> LitQuoted("null")
    [] pv.k = "number" -> LitBare(pv.s)
    [] OTHER -> LitQuoted(TemplateString(pv))

\* deserializeData, update branch: the right-hand side of an assignment
UpdateLiteral(pv) ==
  CASE pv.k = "null" -> LitNull
    [] pv.k = "number" -> LitBare(pv.s)
    [] OTHER -> LitQuoted(TemplateString(pv))

\* Faulty variant of OwnedColumns: every schema column other than id, owned
\* by the field map or not
OwnedColumns_all(data, sch) ==
  SelectSeq(sch.columns, LAMBDA c : c.name # "id")

\* deserializeData, update branch: the schema columns other than id that the
\* field map owns (Object.prototype.hasOwnProperty), in schema order
OwnedColumns(data, sch) ==
  SelectSeq(sch.columns, LAMBDA c : c.name # "id" /\ c.name \in DOMAIN data)

deserializeData(data, sch, uuid) ==
  IF ~Truthy(Get(data, "id"))
    THEN LET present == SelectSeq(sch.columns, LAMBDA c : Get(data, c.name) # Undefined)
             texts == <<uuid>> \o
                      [i \in 1..Len(present) |->
                         InsertValueText(processValueForStorage(data[present[i].name], present[i].type))]
         IN [branch |-> "insert",
             keys |-> <<"id">> \o [i \in 1..Len(present) |-> present[i].name],
             values |-> [i \in 1..Len(texts) |->
                           IF texts[i] = "NULL" THEN LitNull ELSE LitQuoted(texts[i])],
             attributes |-> <<>>]
    ELSE [branch |-> "update",
          keys |-> <<"undefined">>,
          values |-> <<LitBare("undefined")>>,
          attributes |-> [i \in 1..Len(OwnedColumns(data, sch)) |->
                            [col |-> OwnedColumns(data, sch)[i].name,
                             lit |-> UpdateLiteral(processValueForStorage(
                                       Get(data, OwnedColumns(data, sch)[i].name),
                                       OwnedColumns(data, sch)[i].type))]]]

(***************************************************************************)
(* The execution capability: a SQLite table with the persisted layout.      *)
(***************************************************************************)
\* Column affinity of the table: the declared SQLite type of each column
Affinity(sch, col) ==
  IF col \in ColumnNames(sch) THEN getDefaultSQLiteType(ColumnType(sch, col))
  ELSE IF col = "id" THEN "TEXT" ELSE "NUMERIC"

NumericTexts == {"0", "1", "7"}

\* A value as the column stores it
ApplyAffinity(sch, col, v) ==
  IF v.k = "NULL" THEN v
  ELSE IF Affinity(sch, col) = "TEXT" THEN SqlText(v.s)
  ELSE IF v.s \in NumericTexts THEN SqlNum(v.s) ELSE v

\* Texts with a single quote, as the engine reads them between the quotes
\* the template puts around an interpolated value.  'O'Brien' ends the
\* string after O and leaves an unterminated string behind: a syntax error.
\* 'A' OR 'A'='A' is the expression ('A' OR ('A'='A')), which is true.
QuoteText == "O'Brien"
InjectText == "A' OR 'A'='A"
InjectHead == "A"

\* Value of a literal at engine time t
LitValue(lit, t) ==
  CASE lit.q = "NULL" -> SqlNull
    [] lit.q = "quoted" /\ lit.s = InjectText -> SqlNum("1")
    [] lit.q = "quoted" -> SqlText(lit.s)
    [] lit.q = "bare" -> SqlNum(lit.s)
    [] lit.q = "now" -> SqlText(TimeText(t))

\* A statement the engine rejects: an unknown column, a bare token that is
\* not a number, or a string the interpolated text leaves unterminated
Malformed(sch, stmt) ==
  \/ \E i \in 1..Len(stmt.cols) : stmt.cols[i] \notin TableCols(sch)
  \/ \E i \in 1..Len(stmt.lits) : stmt.lits[i].q = "quoted" /\ stmt.lits[i].s = QuoteText
  \/ stmt.whereVal = QuoteText
  \/ \E i \in 1..Len(stmt.lits) : stmt.lits[i].q = "bare" /\ stmt.lits[i].s \notin NumericTexts
  \/ stmt.whereCol # "" /\ stmt.whereCol \notin TableCols(sch)
  \/ stmt.live /\ "deleted_at" \notin TableCols(sch)

\* WHERE col='val' [AND deleted_at IS NULL].  With the text InjectText as
\* val the clause reads col='A' OR ('A'='A' [AND deleted_at IS NULL]).
Matches(sch, row, stmt) ==
  IF stmt.whereCol # "" /\ stmt.whereVal = InjectText
    THEN \/ row[stmt.whereCol] = ApplyAffinity(sch, stmt.whereCol, SqlText(InjectHead))
         \/ (stmt.live => row["deleted_at"] = SqlNull)
    ELSE /\ stmt.whereCol # "" =>
              row[stmt.whereCol] = ApplyAffinity(sch, stmt.whereCol, SqlText(stmt.whereVal))
         /\ stmt.live => row["deleted_at"] = SqlNull

\* Index of the first occurrence of col in the column list (0 when absent)
FirstIndex(cols, col) ==
  IF \E i \in 1..Len(cols) : cols[i] = col
    THEN CHOOSE i \in 1..Len(cols) : cols[i] = col /\ \A j \in 1..(i - 1) : cols[j] # col
    ELSE 0

\* The row an INSERT builds: a column named more than once takes its first
\* value, a column not named is NULL
InsertedRow(sch, stmt, t) ==
  [c \in TableCols(sch) |->
     IF FirstIndex(stmt.cols, c) = 0 THEN SqlNull
     ELSE ApplyAffinity(sch, c, LitValue(stmt.lits[FirstIndex(stmt.cols, c)], t))]

\* Faulty variant of PrimaryKeyFree: a table without the primary key
PrimaryKeyFree_none(st, row) == TRUE

\* id text PRIMARY KEY
PrimaryKeyFree(st, row) ==
  row["id"] = SqlNull \/ \A i \in 1..Len(st) : st[i]["id"] # row["id"]

\* The row after SET c1 = l1, c2 = l2, ...
AssignedRow(sch, row, stmt, t) ==
  [c \in DOMAIN row |->
     IF FirstIndex(stmt.cols, c) = 0 THEN row[c]
     ELSE ApplyAffinity(sch, c, LitValue(stmt.lits[FirstIndex(stmt.cols, c)], t))]

Failed(st) == [store |-> st, results |-> <<>>, success |-> FALSE, err |-> TRUE]

\* Running one statement at engine time t: the new table, the rows returned
\* and whether the engine raised an error
Exec(sch, st, stmt, t) ==
  IF Malformed(sch, stmt) THEN Failed(st)
  ELSE CASE stmt.op = "INSERT" ->
              LET row == InsertedRow(sch, stmt, t)
              IN IF PrimaryKeyFree(st, row)
                   THEN [store |-> Append(st, row), results |-> <<row>>, success |-> TRUE, err |-> FALSE]
                   ELSE Failed(st)
         [] stmt.op = "UPDATE" ->
              LET new == [i \in 1..Len(st) |->
                            IF Matches(sch, st[i], stmt) THEN AssignedRow(sch, st[i], stmt, t) ELSE st[i]]
                  hit == SelectSeq([i \in 1..Len(st) |-> [row |-> new[i], m |-> Matches(sch, st[i], stmt)]],
                                   LAMBDA x : x.m)
              IN [store |-> new,
                  results |-> IF stmt.returning THEN [i \in 1..Len(hit) |-> hit[i].row] ELSE <<>>,
                  success |-> TRUE, err |-> FALSE]
         [] stmt.op = "DELETE" ->
              [store |-> SelectSeq(st, LAMBDA r : ~Matches(sch, r, stmt)),
               results |-> <<>>, success |-> TRUE, err |-> FALSE]
         [] stmt.op = "SELECT" ->
              LET hit == SelectSeq(st, LAMBDA r : Matches(sch, r, stmt))
              IN [store |-> st,
                  results |-> IF stmt.limit1 /\ Len(hit) > 1 THEN <<hit[1]>> ELSE hit,
                  success |-> TRUE, err |-> FALSE]

\* env.prepare(query).all(): ok is the success flag the capability answers.
\* The answer is kept together with the statement that was sent.
Run(sch, st, stmt, t, ok) ==
  (IF ok THEN Exec(sch, st, stmt, t)
   ELSE [store |-> st, results |-> <<>>, success |-> FALSE, err |-> FALSE])
  @@ [stmt |-> stmt]

\* A row as the capability hands it to JavaScript
RowObject(row) ==
  [c \in DOMAIN row |->
     CASE row[c].k = "NULL" -> Null
       [] row[c].k = "TEXT" -> Str(row[c].s)
       [] row[c].k = "NUM" -> Num(row[c].s)]

(***************************************************************************)
(* Mapping rows to records.                                                 *)
(***************************************************************************)
\* Faulty variant of serializeData: only the keys of the row are mapped, a
\* schema column the row lacks stays absent
serializeData_sparse(data, sch) ==
  [x \in DOMAIN data |->
     IF x \in ColumnNames(sch)
       THEN IF data[x] # Undefined
              THEN processValueFromStorage(data[x], ColumnType(sch, x))
              ELSE Undefined
       ELSE IF data[x] = Undefined THEN Null ELSE data[x]]

serializeData(data, sch) ==
  [x \in (DOMAIN data) \cup ColumnNames(sch) |->
     IF x \in ColumnNames(sch)
       THEN IF Get(data, x) # Undefined
              THEN processValueFromStorage(data[x], ColumnType(sch, x))
              ELSE Null
       ELSE IF data[x] = Undefined THEN Null ELSE data[x]]

\* JSON.parse raised while a row was being decoded
DecodeThrows(data, sch) == \E x \in DOMAIN serializeData(data, sch) : serializeData(data, sch)[x] = Thrown

\* An instance: its id field and its data field
Instance(id, data) == [id |-> id, data |-> data]

\* new Model(schema, props)
NewModel(props) == Instance(IF Truthy(Get(props, "id")) THEN props["id"] ELSE Null, props)

\* Faulty variant of createModelInstance: created_at, updated_at and
\* deleted_at are not copied to the instance
createModelInstance_public(data) ==
  Instance(Get(data, "id"),
           [x \in (DOMAIN data) \ {"created_at", "updated_at", "deleted_at"} |-> data[x]])

createModelInstance(data) == Instance(Get(data, "id"), data)

(***************************************************************************)
(* Outcomes of a facade call.  kind is one of                               *)
(*   "null"   the call returned null                                        *)
(*   "inst"   a new model instance (inst)                                   *)
(*   "this"   the instance the method was called on (inst is its new state) *)
(*   "list"   an array of model instances (list)                            *)
(*   "msg"    an object { message } (msg), with data (inst) when restored   *)
(*   "rows"   { success, results } of a raw query (list holds the rows)     *)
(*   "throw"  the call raised (msg)                                         *)
(***************************************************************************)
NoInst == Instance(Null, EmptyMap)
Out(kind, i, list, msg) == [kind |-> kind, inst |-> i, list |-> list, msg |-> msg]
OutNull == Out("null", NoInst, <<>>, "")
OutInst(i) == Out("inst", i, <<>>, "")
OutThis(i) == Out("this", i, <<>>, "")
OutList(l) == Out("list", NoInst, l, "")
OutMsg(m) == Out("msg", NoInst, <<>>, m)
OutThrow(m) == Out("throw", NoInst, <<>>, m)

\* What a static method hands back to the model: the table after the call,
\* the statement sent (NoStmt when none) and the outcome
Ret(st, stmt, out) == [store |-> st, stmt |-> stmt, out |-> out]

\* results[0] mapped to a model instance
FirstAsInstance(r) ==
  IF DecodeThrows(RowObject(r.results[1]), schema)
    THEN Ret(r.store, r.stmt, OutThrow("SyntaxError"))
    ELSE Ret(r.store, r.stmt, OutInst(createModelInstance(serializeData(RowObject(r.results[1]), schema))))

\* results.map(row => instance)
AllAsInstances(r) ==
  IF \E i \in 1..Len(r.results) : DecodeThrows(RowObject(r.results[i]), schema)
    THEN Ret(r.store, r.stmt, OutThrow("SyntaxError"))
    ELSE Ret(r.store, r.stmt,
             OutList([i \in 1..Len(r.results) |->
                        createModelInstance(serializeData(RowObject(r.results[i]), schema))]))

\* if (success && results && results[0]) return the instance; else return null
RecordOrNull(r) ==
  IF r.err THEN Ret(r.store, r.stmt, OutThrow("D1_ERROR"))
  ELSE IF r.success /\ Len(r.results) > 0 THEN FirstAsInstance(r)
  ELSE Ret(r.store, r.stmt, OutNull)

\* if (!success || !results) return []; else return results.map(...)
ListOrEmpty(r) ==
  IF r.err THEN Ret(r.store, r.stmt, OutThrow("D1_ERROR"))
  ELSE IF ~r.success THEN Ret(r.store, r.stmt, OutList(<<>>))
  ELSE AllAsInstances(r)

\* Faulty variant of SelectStmt: the read also stamps the rows it returns
SelectStmt_touch(col, val, live, limit1) ==
  [op |-> "UPDATE", cols |-> <<"updated_at">>, lits |-> <<LitNow>>,
   whereCol |-> col, whereVal |-> val,
   live |-> live, limit1 |-> limit1, returning |-> TRUE]

SelectStmt(col, val, live, limit1) ==
  [op |-> "SELECT", cols |-> <<>>, lits |-> <<>>, whereCol |-> col, whereVal |-> val,
   live |-> live, limit1 |-> limit1, returning |-> FALSE]

\* static findById(id, env, includeDeleted)
findById(st, t, id, includeDeleted, ok) ==
  RecordOrNull(Run(schema, st,
                   SelectStmt("id", TemplateString(id), schema.softDeletes /\ ~includeDeleted, TRUE),
                   t, ok))

\* static findOne(column, value, env, includeDeleted)
findOne(st, t, column, value, includeDeleted, ok) ==
  RecordOrNull(Run(schema, st,
                   SelectStmt(column, TemplateString(value), schema.softDeletes /\ ~includeDeleted, TRUE),
                   t, ok))

\* static findBy(column, value, env, includeDeleted)
findBy(st, t, column, value, includeDeleted, ok) ==
  ListOrEmpty(Run(schema, st,
                  SelectStmt(column, TemplateString(value), schema.softDeletes /\ ~includeDeleted, FALSE),
                  t, ok))

\* Faulty variant of all: the WHERE deleted_at IS NULL clause is never added
all_everything(st, t, includeDeleted, ok) ==
  ListOrEmpty(Run(schema, st, SelectStmt("", "", FALSE, FALSE), t, ok))

\* static all(env, includeDeleted)
all(st, t, includeDeleted, ok) ==
  ListOrEmpty(Run(schema, st, SelectStmt("", "", schema.softDeletes /\ ~includeDeleted, FALSE), t, ok))

\* { success, results } of a raw query, or { success: false, message }
RawResult(r) ==
  IF r.err THEN Ret(r.store, r.stmt, OutThrow("D1_ERROR"))
  ELSE IF ~r.success THEN Ret(r.store, r.stmt, Out("rows", NoInst, <<>>, "Query failed"))
  ELSE Ret(r.store, r.stmt, Out("rows", NoInst, [i \in 1..Len(r.results) |-> RowObject(r.results[i])], ""))

\* static query(sql, env) for sql = SELECT * FROM table WHERE id='<id>'
query(st, t, id, ok) == RawResult(Run(schema, st, SelectStmt("id", id, FALSE, FALSE), t, ok))

\* static query(sql, env) for
\* sql = INSERT INTO table (id, extra) VALUES ('<id>', '<text>')
rawInsert(st, t, id, text, ok) ==
  RawResult(Run(schema, st,
                [op |-> "INSERT", cols |-> <<"id", "extra">>,
                 lits |-> <<LitQuoted(id), LitQuoted(text)>>,
                 whereCol |-> "", whereVal |-> "", live |-> FALSE, limit1 |-> FALSE,
                 returning |-> FALSE],
                t, ok))

\* Faulty variant of InsertStmt: the timestamp columns are always named
InsertStmt_always(d) ==
  [op |-> "INSERT",
   cols |-> d.keys \o <<"created_at", "updated_at">>,
   lits |-> d.values \o <<LitNow, LitNow>>,
   whereCol |-> "", whereVal |-> "", live |-> FALSE, limit1 |-> FALSE,
   returning |-> TRUE]

\* INSERT INTO table (keys[, created_at, updated_at])
\*   VALUES(values[, datetime('now'), datetime('now')]) RETURNING *
InsertStmt(d) ==
  [op |-> "INSERT",
   cols |-> d.keys \o (IF schema.timestamps THEN <<"created_at", "updated_at">> ELSE <<>>),
   lits |-> d.values \o (IF schema.timestamps THEN <<LitNow, LitNow>> ELSE <<>>),
   whereCol |-> "", whereVal |-> "", live |-> FALSE, limit1 |-> FALSE,
   returning |-> TRUE]

\* static create({ data }, env); uuid is what crypto.randomUUID() returns
create(st, t, data, uuid, ok) ==
  RecordOrNull(Run(schema, st, InsertStmt(deserializeData(data, schema, uuid)), t, ok))

\* Faulty variant of UpdateStmt: created_at is assigned as well
UpdateStmt_created(id, attributes) ==
  [op |-> "UPDATE",
   cols |-> [i \in 1..Len(attributes) |-> attributes[i].col]
            \o (IF schema.timestamps THEN <<"updated_at", "created_at">> ELSE <<>>),
   lits |-> [i \in 1..Len(attributes) |-> attributes[i].lit]
            \o (IF schema.timestamps THEN <<LitNow, LitNow>> ELSE <<>>),
   whereCol |-> "id", whereVal |-> TemplateString(id),
   live |-> FALSE, limit1 |-> FALSE, returning |-> TRUE]

\* Faulty variant of UpdateStmt: updated_at is never assigned
UpdateStmt_stale(id, attributes) ==
  [op |-> "UPDATE",
   cols |-> [i \in 1..Len(attributes) |-> attributes[i].col],
   lits |-> [i \in 1..Len(attributes) |-> attributes[i].lit],
   whereCol |-> "id", whereVal |-> TemplateString(id),
   live |-> FALSE, limit1 |-> FALSE, returning |-> TRUE]

\* Faulty variant of UpdateStmt: the update also clears deleted_at
UpdateStmt_revive(id, attributes) ==
  [op |-> "UPDATE",
   cols |-> [i \in 1..Len(attributes) |-> attributes[i].col]
            \o (IF schema.timestamps THEN <<"updated_at">> ELSE <<>>)
            \o (IF schema.softDeletes THEN <<"deleted_at">> ELSE <<>>),
   lits |-> [i \in 1..Len(attributes) |-> attributes[i].lit]
            \o (IF schema.timestamps THEN <<LitNow>> ELSE <<>>)
            \o (IF schema.softDeletes THEN <<LitNull>> ELSE <<>>),
   whereCol |-> "id", whereVal |-> TemplateString(id),
   live |-> FALSE, limit1 |-> FALSE, returning |-> TRUE]

\* UPDATE table SET attributes[, updated_at = datetime('now')]
\*   WHERE id='<id>' RETURNING *
UpdateStmt(id, attributes) ==
  [op |-> "UPDATE",
   cols |-> [i \in 1..Len(attributes) |-> attributes[i].col]
            \o (IF schema.timestamps THEN <<"updated_at">> ELSE <<>>),
   lits |-> [i \in 1..Len(attributes) |-> attributes[i].lit]
            \o (IF schema.timestamps THEN <<LitNow>> ELSE <<>>),
   whereCol |-> "id", whereVal |-> TemplateString(id),
   live |-> FALSE, limit1 |-> FALSE, returning |-> TRUE]

\* Faulty variant of update: the statement is sent also when no column is
\* assigned
update_always(st, t, data, ok) ==
  IF ~Truthy(Get(data, "id")) THEN Ret(st, NoStmt, OutNull)
  ELSE RecordOrNull(Run(schema, st,
                        UpdateStmt(data["id"], deserializeData(data, schema, "").attributes),
                        t, ok))

\* static update({ data }, env)
update(st, t, data, ok) ==
  IF ~Truthy(Get(data, "id")) THEN Ret(st, NoStmt, OutNull)
  ELSE IF Len(deserializeData(data, schema, "").attributes) = 0
         THEN findById(st, t, data["id"], FALSE, ok)
  ELSE RecordOrNull(Run(schema, st,
                        UpdateStmt(data["id"], deserializeData(data, schema, "").attributes),
                        t, ok))

\* Faulty variant of SoftDeleteStmt: the row is removed
SoftDeleteStmt_purge(id) ==
  [op |-> "DELETE", cols |-> <<>>, lits |-> <<>>,
   whereCol |-> "id", whereVal |-> TemplateString(id),
   live |-> FALSE, limit1 |-> FALSE, returning |-> FALSE]

\* UPDATE table SET deleted_at = datetime('now') WHERE id='<id>'
SoftDeleteStmt(id) ==
  [op |-> "UPDATE", cols |-> <<"deleted_at">>, lits |-> <<LitNow>>,
   whereCol |-> "id", whereVal |-> TemplateString(id),
   live |-> FALSE, limit1 |-> FALSE, returning |-> FALSE]

\* DELETE FROM table WHERE id='<id>'
HardDeleteStmt(id) ==
  [op |-> "DELETE", cols |-> <<>>, lits |-> <<>>,
   whereCol |-> "id", whereVal |-> TemplateString(id),
   live |-> FALSE, limit1 |-> FALSE, returning |-> FALSE]

\* success ? { message: <done> } : { message: ... has not been found }
DeleteResult(r, done) ==
  IF r.err THEN Ret(r.store, r.stmt, OutThrow("D1_ERROR"))
  ELSE IF r.success THEN Ret(r.store, r.stmt, OutMsg(done))
  ELSE Ret(r.store, r.stmt, OutMsg("has not been found"))

\* Faulty variant of delete: the soft-delete branch is never taken
delete_hard(st, t, id, ok) ==
  IF ~Truthy(id) THEN Ret(st, NoStmt, OutMsg("ID is missing."))
  ELSE DeleteResult(Run(schema, st, HardDeleteStmt(id), t, ok), "has been successfully deleted.")

\* static delete(id, env)
delete(st, t, id, ok) ==
  IF ~Truthy(id) THEN Ret(st, NoStmt, OutMsg("ID is missing."))
  ELSE IF schema.softDeletes
         THEN DeleteResult(Run(schema, st, SoftDeleteStmt(id), t, ok), "has been soft deleted.")
  ELSE DeleteResult(Run(schema, st, HardDeleteStmt(id), t, ok), "has been successfully deleted.")

\* Faulty variant of RestoreStmt: deleted_at is set to the engine time
RestoreStmt_now(id) ==
  [op |-> "UPDATE", cols |-> <<"deleted_at">>, lits |-> <<LitNow>>,
   whereCol |-> "id", whereVal |-> TemplateString(id),
   live |-> FALSE, limit1 |-> FALSE, returning |-> TRUE]

\* UPDATE table SET deleted_at = NULL WHERE id='<id>' RETURNING *
RestoreStmt(id) ==
  [op |-> "UPDATE", cols |-> <<"deleted_at">>, lits |-> <<LitNull>>,
   whereCol |-> "id", whereVal |-> TemplateString(id),
   live |-> FALSE, limit1 |-> FALSE, returning |-> TRUE]

\* { message: ... restored, data: instance } or { message: ... not found }
RestoreResult(r) ==
  IF r.err THEN Ret(r.store, r.stmt, OutThrow("D1_ERROR"))
  ELSE IF ~r.success \/ Len(r.results) = 0 THEN Ret(r.store, r.stmt, OutMsg("has not been found"))
  ELSE IF DecodeThrows(RowObject(r.results[1]), schema)
         THEN Ret(r.store, r.stmt, OutThrow("SyntaxError"))
  ELSE Ret(r.store, r.stmt,
           Out("msg", createModelInstance(serializeData(RowObject(r.results[1]), schema)),
               <<>>, "has been successfully restored."))

\* Faulty variant of restore: the softDeletes flag is not consulted
restore_unchecked(st, t, id, ok) ==
  IF ~Truthy(id) THEN Ret(st, NoStmt, OutMsg("ID is missing."))
  ELSE RestoreResult(Run(schema, st, RestoreStmt(id), t, ok))

\* static restore(id, env)
restore(st, t, id, ok) ==
  IF ~Truthy(id) THEN Ret(st, NoStmt, OutMsg("ID is missing."))
  ELSE IF ~schema.softDeletes THEN Ret(st, NoStmt, OutMsg("Soft deletes are not enabled"))
  ELSE RestoreResult(Run(schema, st, RestoreStmt(id), t, ok))

(***************************************************************************)
(* Instance methods.  Each returns what the static methods return plus      *)
(* self, the state of the instance after the call.                          *)
(***************************************************************************)
IRet(r, out, self) == [store |-> r.store, stmt |-> r.stmt, out |-> out, self |-> self]

\* Faulty variant of Synced: this.id is left as it was
Synced_noid(result, keep) == Instance(keep, result.data)

\* this.data = { ...result.data }; this.id = result.data.id || keep
Synced(result, keep) ==
  Instance(IF Truthy(Get(result.data, "id")) THEN result.data["id"] ELSE keep, result.data)

\* if (result && result.data) { sync; return this } else return null
ThisOrNull(r, self, keep) ==
  IF r.out.kind = "inst" THEN IRet(r, OutThis(Synced(r.out.inst, keep)), Synced(r.out.inst, keep))
  ELSE IF r.out.kind = "throw" THEN IRet(r, r.out, self)
  ELSE IRet(r, OutNull, self)

\* Faulty variant of instUpdate: only the id and the partial are sent
instUpdate_partial(st, t, self, partialData, ok) ==
  IF ~Truthy(Get(self.data, "id"))
    THEN IRet(Ret(st, NoStmt, OutNull), OutThrow("Instance data is missing an ID, cannot update."), self)
    ELSE ThisOrNull(update(st, t, Spread([x \in {"id"} |-> self.data["id"]], partialData), ok),
                    self, self.id)

\* update(partialData, env)
instUpdate(st, t, self, partialData, ok) ==
  IF ~Truthy(Get(self.data, "id"))
    THEN IRet(Ret(st, NoStmt, OutNull), OutThrow("Instance data is missing an ID, cannot update."), self)
    ELSE ThisOrNull(update(st, t, Spread(self.data, partialData), ok), self, self.id)

\* Faulty variant of instDelete: the id is handed on without the check
instDelete_unchecked(st, t, self, ok) ==
  IRet(delete(st, t, Get(self.data, "id"), ok), delete(st, t, Get(self.data, "id"), ok).out, self)

\* delete(env)
instDelete(st, t, self, ok) ==
  IF ~Truthy(Get(self.data, "id"))
    THEN IRet(Ret(st, NoStmt, OutNull), OutThrow("Instance data is missing an ID, cannot delete."), self)
    ELSE IRet(delete(st, t, self.data["id"], ok), delete(st, t, self.data["id"], ok).out, self)

\* save: if (this.id && (!this.data.id || this.data.id !== this.id)) this.data.id = this.id
SyncId(self) ==
  IF Truthy(self.id) /\ (~Truthy(Get(self.data, "id")) \/ self.data["id"] # self.id)
    THEN Instance(self.id, Spread(self.data, [x \in {"id"} |-> self.id]))
    ELSE self

\* save: the create payload, without an id that is null or undefined
CreatePayload(data) ==
  IF "id" \in DOMAIN data /\ data["id"].k \in {"null", "undefined"}
    THEN Without(data, "id")
    ELSE data

\* save(env)
save(st, t, self, uuid, ok) ==
  IF Truthy(Get(SyncId(self).data, "id"))
    THEN ThisOrNull(update(st, t, SyncId(self).data, ok), SyncId(self), Null)
    ELSE ThisOrNull(create(st, t, CreatePayload(SyncId(self).data), uuid, ok), SyncId(self), Null)

(***************************************************************************)
(* Inputs of the calls.                                                     *)
(***************************************************************************)
\* The i-th UUID in the order crypto.randomUUID() first returns them
UUID(i) == "u" \o ToString(i)

\* What crypto.randomUUID() can return: an id no row has, or (a collision)
\* the id of the oldest row
FreshUUID(st) ==
  UUID(CHOOSE i \in 1..(Len(st) + 1) :
         /\ \A r \in 1..Len(st) : st[r]["id"].s # UUID(i)
         /\ \A j \in 1..(i - 1) : \E r \in 1..Len(st) : st[r]["id"].s = UUID(j))
UUIDs(st) == {FreshUUID(st)} \cup (IF Len(st) > 0 THEN {st[1]["id"].s} ELSE {})

\* Marks a key the caller leaves out of a field map
Absent == [k |-> "absent", s |-> ""]

\* The field map { id, name, extra } without the keys marked Absent
FieldMap(idv, namev, extrav) ==
  LET all3 == [x \in {"id", "name", "extra"} |->
                 IF x = "id" THEN idv ELSE IF x = "name" THEN namev ELSE extrav]
  IN [x \in {y \in {"id", "name", "extra"} : all3[y] # Absent} |-> all3[x]]

\* The two values of the extra column's type the application uses
ExtraV1 == ValsOfType(ColumnType(schema, "extra"))[1]
ExtraV2 == ValsOfType(ColumnType(schema, "extra"))[2]

IdArgs == {Str(UUID(1)), Str(UUID(2)), Null}

\* Field maps handed to create, update, new Model and instance update
CreateInputs ==
  {FieldMap(Absent, n, e) : n \in {Absent, Str("A")}, e \in {Absent, Null, ExtraV1}}
    \cup {FieldMap(Null, Str("A"), Absent), FieldMap(Str(UUID(1)), Str("A"), Absent)}
UpdateInputs ==
  {FieldMap(Str(UUID(1)), n, e) : n \in {Absent, Str("B")}, e \in {Absent, Null, ExtraV2}}
    \cup {FieldMap(Absent, Str("B"), Absent), FieldMap(Str(UUID(1)), Absent, Undefined)}
PartialInputs ==
  {FieldMap(Absent, Str("B"), Absent), FieldMap(Absent, Absent, ExtraV2),
   FieldMap(Absent, Absent, Null), FieldMap(Str(UUID(1)), Str("B"), Absent), EmptyMap}
NewInputs ==
  {EmptyMap, FieldMap(Absent, Str("A"), ExtraV1), FieldMap(Str(UUID(1)), Str("B"), Absent)}

(***************************************************************************)
(* The state machine.                                                       *)
(***************************************************************************)
\* The history after a call that sent r.stmt: the call is appended when it
\* changed the table
Logged(op, r) ==
  IF r.store = store THEN log
  ELSE Append(log, [op |-> op,
                    id |-> IF r.stmt.op = "INSERT" THEN r.store[Len(r.store)]["id"].s
                           ELSE r.stmt.whereVal])

TestSchemas == {Schema("jsonb", TRUE, TRUE), Schema("jsonb", FALSE, FALSE)}

Init ==
  /\ schema \in TestSchemas
  /\ store = <<>>
  /\ now = 0
  /\ inst = [h \in Handles |-> NewModel(EmptyMap)]
  /\ ops = 0
  /\ log = <<>>

\* The engine clock advances
Tick ==
  /\ ops < MaxOps /\ now < MaxTime
  /\ now' = now + 1
  /\ ops' = ops + 1
  /\ UNCHANGED <<schema, store, inst, log>>

\* inst[2] = new Model(schema, props)
New(props) ==
  /\ ops < MaxOps
  /\ inst' = [inst EXCEPT ![2] = NewModel(props)]
  /\ ops' = ops + 1
  /\ UNCHANGED <<schema, store, now, log>>

\* inst[1] = await Model.create({ data }, env)
Create(data, uuid, ok) ==
  /\ ops < MaxOps /\ Len(store) < MaxRows
  /\ \E r \in {create(store, now, data, uuid, ok)} :
        /\ store' = r.store
        /\ inst' = IF r.out.kind = "inst" THEN [inst EXCEPT ![1] = r.out.inst] ELSE inst
        /\ log' = Logged("create", r)
  /\ ops' = ops + 1
  /\ UNCHANGED <<schema, now>>

Update(data, ok) ==
  /\ ops < MaxOps
  /\ \E r \in {update(store, now, data, ok)} :
        /\ store' = r.store
        /\ log' = Logged("update", r)
  /\ ops' = ops + 1
  /\ UNCHANGED <<schema, now, inst>>

Delete(id, ok) ==
  /\ ops < MaxOps
  /\ \E r \in {delete(store, now, id, ok)} :
        /\ store' = r.store
        /\ log' = Logged("delete", r)
  /\ ops' = ops + 1
  /\ UNCHANGED <<schema, now, inst>>

Restore(id, ok) ==
  /\ ops < MaxOps
  /\ \E r \in {restore(store, now, id, ok)} :
        /\ store' = r.store
        /\ log' = Logged("restore", r)
  /\ ops' = ops + 1
  /\ UNCHANGED <<schema, now, inst>>

FindById(id, includeDeleted, ok) ==
  /\ ops < MaxOps
  /\ \E r \in {findById(store, now, id, includeDeleted, ok)} :
        /\ store' = r.store
  /\ ops' = ops + 1
  /\ UNCHANGED <<schema, now, inst, log>>

\* inst[2] = await Model.findById(id, env)
Fetch(id) ==
  /\ ops < MaxOps
  /\ \E r \in {findById(store, now, id, FALSE, TRUE)} :
        /\ r.out.kind = "inst"
        /\ store' = r.store
        /\ inst' = [inst EXCEPT ![2] = r.out.inst]
  /\ ops' = ops + 1
  /\ UNCHANGED <<schema, now, log>>

FindOne(value, includeDeleted, ok) ==
  /\ ops < MaxOps
  /\ \E r \in {findOne(store, now, "name", value, includeDeleted, ok)} :
        /\ store' = r.store
  /\ ops' = ops + 1
  /\ UNCHANGED <<schema, now, inst, log>>

FindBy(value, includeDeleted, ok) ==
  /\ ops < MaxOps
  /\ \E r \in {findBy(store, now, "name", value, includeDeleted, ok)} :
        /\ store' = r.store
  /\ ops' = ops + 1
  /\ UNCHANGED <<schema, now, inst, log>>

All(includeDeleted, ok) ==
  /\ ops < MaxOps
  /\ \E r \in {all(store, now, includeDeleted, ok)} :
        /\ store' = r.store
  /\ ops' = ops + 1
  /\ UNCHANGED <<schema, now, inst, log>>

Query(id, ok) ==
  /\ ops < MaxOps
  /\ \E r \in {query(store, now, id, ok)} :
        /\ store' = r.store
  /\ ops' = ops + 1
  /\ UNCHANGED <<schema, now, inst, log>>

InstUpdate(h, partialData, ok) ==
  /\ ops < MaxOps
  /\ \E r \in {instUpdate(store, now, inst[h], partialData, ok)} :
        /\ store' = r.store
        /\ inst' = [inst EXCEPT ![h] = r.self]
        /\ log' = Logged("inst.update", r)
  /\ ops' = ops + 1
  /\ UNCHANGED <<schema, now>>

InstDelete(h, ok) ==
  /\ ops < MaxOps
  /\ \E r \in {instDelete(store, now, inst[h], ok)} :
        /\ store' = r.store
        /\ inst' = [inst EXCEPT ![h] = r.self]
        /\ log' = Logged("inst.delete", r)
  /\ ops' = ops + 1
  /\ UNCHANGED <<schema, now>>

Save(h, uuid, ok) ==
  /\ ops < MaxOps
  /\ Truthy(Get(inst[h].data, "id")) \/ Truthy(inst[h].id) \/ Len(store) < MaxRows
  /\ \E r \in {save(store, now, inst[h], uuid, ok)} :
        /\ store' = r.store
        /\ inst' = [inst EXCEPT ![h] = r.self]
        /\ log' = Logged("save", r)
  /\ ops' = ops + 1
  /\ UNCHANGED <<schema, now>>

Next ==
  \/ Tick
  \/ \E props \in NewInputs : New(props)
  \/ \E data \in CreateInputs, uuid \in UUIDs(store), ok \in BOOLEAN : Create(data, uuid, ok)
  \/ \E data \in UpdateInputs, ok \in BOOLEAN : Update(data, ok)
  \/ \E id \in IdArgs, ok \in BOOLEAN : Delete(id, ok)
  \/ \E id \in IdArgs, ok \in BOOLEAN : Restore(id, ok)
  \/ \E id \in IdArgs, incl \in BOOLEAN, ok \in BOOLEAN : FindById(id, incl, ok)
  \/ \E id \in IdArgs : Fetch(id)
  \/ \E incl \in BOOLEAN, ok \in BOOLEAN : FindOne(Str("A"), incl, ok)
  \/ \E incl \in BOOLEAN, ok \in BOOLEAN : FindBy(Str("A"), incl, ok)
  \/ \E incl \in BOOLEAN, ok \in BOOLEAN : All(incl, ok)
  \/ \E ok \in BOOLEAN : Query(UUID(1), ok)
  \/ \E h \in Handles, partialData \in PartialInputs, ok \in BOOLEAN : InstUpdate(h, partialData, ok)
  \/ \E h \in Handles, ok \in BOOLEAN : InstDelete(h, ok)
  \/ \E h \in Handles, uuid \in UUIDs(store), ok \in BOOLEAN : Save(h, uuid, ok)

Spec == Init /\ [][Next]_vars

\* The same table under a schema whose extra column has each logical type in
\* turn, driven by the calls that write and read values
TypedSchemas == {Schema(ty, TRUE, TRUE) : ty \in ColumnTypes} \cup {Schema("date", FALSE, FALSE)}

InitTypes ==
  /\ schema \in TypedSchemas
  /\ store = <<>>
  /\ now = 0
  /\ inst = [h \in Handles |-> NewModel(EmptyMap)]
  /\ ops = 0
  /\ log = <<>>

NextTypes ==
  \/ Tick
  \/ \E props \in NewInputs : New(props)
  \/ \E data \in CreateInputs, ok \in BOOLEAN : Create(data, FreshUUID(store), ok)
  \/ \E data \in UpdateInputs, ok \in BOOLEAN : Update(data, ok)
  \/ \E ok \in BOOLEAN : Save(2, FreshUUID(store), ok)

SpecTypes == InitTypes /\ [][NextTypes]_vars

\* The same table under the schemas the constructor builds from every
\* choice of the two flags, each passed or left out
FlagProps ==
  {[x \in {} |-> TRUE]}
    \cup {[x \in {"timestamps"} |-> b] : b \in BOOLEAN}
    \cup {[x \in {"softDeletes"} |-> b] : b \in BOOLEAN}
    \cup {[x \in {"timestamps", "softDeletes"} |-> IF x = "timestamps" THEN b ELSE c] :
             b \in BOOLEAN, c \in BOOLEAN}

FlagSchemas == {SchemaOf("jsonb", props) : props \in FlagProps}

InitFlags ==
  /\ schema \in FlagSchemas
  /\ store = <<>>
  /\ now = 0
  /\ inst = [h \in Handles |-> NewModel(EmptyMap)]
  /\ ops = 0
  /\ log = <<>>

NextFlags ==
  \/ Tick
  \/ \E data \in CreateInputs, ok \in BOOLEAN : Create(data, FreshUUID(store), ok)
  \/ \E data \in UpdateInputs, ok \in BOOLEAN : Update(data, ok)

SpecFlags == InitFlags /\ [][NextFlags]_vars

(***************************************************************************)
(* Two handles of one persisted row.  The table holds one record, created   *)
(* at time 0, and both handles were read from it with findById; the         *)
(* application then updates through either handle.  Here log is the history *)
(* of the instance updates that were served: [h, partial, sent], sent being *)
(* the field map handed to the static update.                               *)
(***************************************************************************)
\* The table after Model.create({ data: { name: 'A', extra: e } }, env)
Seeded(e) == create(<<>>, 0, FieldMap(Absent, Str("A"), e), UUID(1), TRUE).store

InitHandles ==
  /\ schema \in TestSchemas
  /\ \E e \in {Absent, ExtraV1} : store = Seeded(e)
  /\ now = 0
  /\ inst = [h \in Handles |-> findById(store, 0, Str(UUID(1)), FALSE, TRUE).out.inst]
  /\ ops = 0
  /\ log = <<>>

\* The partials of the two callers: one column each
HandlePartials ==
  {FieldMap(Absent, Str("B"), Absent), FieldMap(Absent, Absent, ExtraV2), FieldMap(Absent, Absent, Null)}

\* await inst[h].update(partialData, env)
HandleUpdate(h, partialData, ok) ==
  /\ ops < MaxOps
  /\ \E r \in {instUpdate(store, now, inst[h], partialData, ok)} :
        /\ store' = r.store
        /\ inst' = [inst EXCEPT ![h] = r.self]
        /\ log' = IF r.out.kind = "this"
                    THEN Append(log, [h |-> h, partial |-> partialData,
                                      sent |-> Spread(inst[h].data, partialData)])
                    ELSE log
  /\ ops' = ops + 1
  /\ UNCHANGED <<schema, now>>

NextHandles ==
  \/ Tick
  \/ Fetch(Str(UUID(1)))
  \/ \E h \in Handles, partialData \in HandlePartials, ok \in BOOLEAN : HandleUpdate(h, partialData, ok)

SpecHandles == InitHandles /\ [][NextHandles]_vars

(***************************************************************************)
(* The codec on its own: the application encodes logical values for the     *)
(* extra column and decodes storage values of it, and rows written through  *)
(* the raw query passthrough are read back.  Here log is the history of the *)
(* codec calls: [op, in, out].                                              *)
(***************************************************************************)
\* The logical values of each type (null included)
LogicalVals(t) ==
  {Null} \cup (IF t = "jsonb" THEN JsonDomain
               ELSE IF t = "string" THEN Range(StringVals) \cup {Str(""), Str("null")}
               ELSE Range(ValsOfType(t)))

\* Values a column of each type can hold in a row handed back by the engine
StoredVals(t) ==
  {Null} \cup (CASE t = "string" -> {Str("A")}
                 [] t = "number" -> {Num("7")}
                 [] t = "boolean" -> {Num("1"), Num("0")}
                 [] t = "jsonb" -> {Str("{\"a\":1}"), Str("null"), Str(""), Str("{bad")}
                 [] t = "date" -> {Str(DateVals[1].s)})

\* Texts written to the extra column by raw SQL
RawTexts == {"{\"a\":1}", "{bad"}

CodecCall(op, in, out) == [op |-> op, in |-> in, out |-> out]

Encode(v) ==
  /\ ops < MaxOps
  /\ log' = Append(log, CodecCall("encode", v, processValueForStorage(v, ColumnType(schema, "extra"))))
  /\ ops' = ops + 1
  /\ UNCHANGED <<schema, store, now, inst>>

Decode(s) ==
  /\ ops < MaxOps
  /\ log' = Append(log, CodecCall("decode", s, processValueFromStorage(s, ColumnType(schema, "extra"))))
  /\ ops' = ops + 1
  /\ UNCHANGED <<schema, store, now, inst>>

\* Decoding what the last call encoded
DecodeEncoded ==
  /\ Len(log) > 0 /\ log[Len(log)].op = "encode"
  /\ Decode(log[Len(log)].out)

\* await Model.query("INSERT INTO table (id, extra) VALUES (...)", env)
RawInsert(text, ok) ==
  /\ ops < MaxOps /\ Len(store) < MaxRows
  /\ \E r \in {rawInsert(store, now, FreshUUID(store), text, ok)} :
        /\ store' = r.store
  /\ ops' = ops + 1
  /\ UNCHANGED <<schema, now, inst, log>>

InitCodec ==
  /\ schema \in TypedSchemas
  /\ store = <<>>
  /\ now = 0
  /\ inst = [h \in Handles |-> NewModel(EmptyMap)]
  /\ ops = 0
  /\ log = <<>>

NextCodec ==
  \/ \E v \in LogicalVals(ColumnType(schema, "extra")) : Encode(v)
  \/ \E s \in StoredVals(ColumnType(schema, "extra")) : Decode(s)
  \/ DecodeEncoded
  \/ \E text \in RawTexts, ok \in BOOLEAN : RawInsert(text, ok)
  \/ \E ok \in BOOLEAN : FindById(Str(UUID(1)), TRUE, ok)
  \/ \E ok \in BOOLEAN : All(TRUE, ok)

SpecCodec == InitCodec /\ [][NextCodec]_vars

\* Shape of the state
TypeOK ==
  /\ schema \in TestSchemas \cup TypedSchemas \cup FlagSchemas
  /\ now \in 0..MaxTime
  /\ ops \in 0..MaxOps
  /\ Len(store) <= MaxRows
  /\ Len(log) <= ops
  /\ \A i \in 1..Len(store) : DOMAIN store[i] = TableCols(schema)

(***************************************************************************)
(* Properties.                                                              *)
(***************************************************************************)
\* The rows whose id column holds the text id, and the first of them
RowsWithId(st, id) == SelectSeq(st, LAMBDA r : r["id"] = SqlText(id))
HasRow(st, id) == Len(RowsWithId(st, id)) > 0
Row(st, id) == RowsWithId(st, id)[1]

\* The rows that are not soft-deleted
LiveRows(st) == SelectSeq(st, LAMBDA r : r["deleted_at"] = SqlNull)

\* The ids of a list of records and of a sequence of rows, in order
IdsOf(list) == [i \in 1..Len(list) |-> list[i].id]
RowIds(rows) == [i \in 1..Len(rows) |-> Str(rows[i]["id"].s)]

Soft == "has been soft deleted."
Restored == "has been successfully restored."

\* An entry of the history
Did(op, id) == [op |-> op, id |-> id]

\* What findById, findById(includeDeleted) and a raw query answer for id on
\* table st: nothing by default, the soft-deleted record, exactly one row
HiddenButKept(st, id) ==
  /\ findById(st, now, id, FALSE, TRUE).out = OutNull
  /\ \A f \in {findById(st, now, id, TRUE, TRUE).out} :
        /\ f.kind = "inst"
        /\ f.inst.id = id /\ f.inst.data["id"] = id
        /\ f.inst.data["deleted_at"] # Null
  /\ \A q \in {query(st, now, id.s, TRUE).out} :
        q.kind = "rows" /\ Len(q.list) = 1

\* C1: with softDeletes, after delete(id) of an existing record (static
\* delete(id) or delete() on an instance of it, the statement served by the
\* engine) findById(id) returns null, findById(id, true) returns a record
\* with that id and a non-null deleted_at, and a raw query for the id
\* returns exactly one row.
C1_SoftDeleteVisibility ==
  schema.softDeletes =>
    /\ \A id \in IdArgs :
         (Truthy(id) /\ HasRow(store, id.s)) =>
           /\ delete(store, now, id, TRUE).out = OutMsg(Soft)
           /\ HiddenButKept(delete(store, now, id, TRUE).store, id)
    /\ \A h \in Handles :
         (Truthy(Get(inst[h].data, "id")) /\ HasRow(store, inst[h].data["id"].s)) =>
           /\ instDelete(store, now, inst[h], TRUE).out = OutMsg(Soft)
           /\ HiddenButKept(instDelete(store, now, inst[h], TRUE).store, inst[h].data["id"])

\* A record was created and delete() on its instance has soft-deleted it
C1_Witness ==
  /\ schema.softDeletes
  /\ log = <<Did("create", UUID(1)), Did("inst.delete", UUID(1))>>
  /\ Row(store, UUID(1))["deleted_at"] # SqlNull
  /\ HiddenButKept(store, Str(UUID(1)))

\* C2: with softDeletes, in every state reached by creates, updates, deletes
\* and restores, all() with default arguments returns exactly one record per
\* row whose deleted_at is NULL (in row order), findOne and findBy with
\* default arguments never return a row whose deleted_at is set, and
\* all(includeDeleted = true) returns one record per row.
C2_DefaultReadsSkipDeleted ==
  schema.softDeletes =>
    /\ \A a \in {all(store, now, FALSE, TRUE).out} :
          /\ a.kind = "list"
          /\ IdsOf(a.list) = RowIds(LiveRows(store))
          /\ \A i \in 1..Len(a.list) : a.list[i].data["deleted_at"] = Null
    /\ \A a \in {all(store, now, TRUE, TRUE).out} :
          a.kind = "list" /\ IdsOf(a.list) = RowIds(store)
    /\ \A v \in Range(StringVals) :
          /\ \A f \in {findOne(store, now, "name", v, FALSE, TRUE).out} :
                /\ f.kind \in {"null", "inst"}
                /\ f.kind = "inst" =>
                     /\ f.inst.data["deleted_at"] = Null
                     /\ Row(store, f.inst.id.s)["deleted_at"] = SqlNull
          /\ \A f \in {findBy(store, now, "name", v, FALSE, TRUE).out} :
                /\ f.kind = "list"
                /\ \A i \in 1..Len(f.list) :
                     /\ f.list[i].data["deleted_at"] = Null
                     /\ Row(store, f.list[i].id.s)["deleted_at"] = SqlNull

\* Two records were created and the first was soft-deleted: all() returns the
\* second only, all(true) both (a read leaves the state unchanged, so what
\* it returns in a state is what it returned on the step into that state)
C2_Witness ==
  /\ schema.softDeletes
  /\ Len(store) = 2
  /\ store[1]["deleted_at"] # SqlNull /\ store[2]["deleted_at"] = SqlNull
  /\ IdsOf(all(store, now, FALSE, TRUE).out.list) = <<Str(store[2]["id"].s)>>
  /\ Len(all(store, now, TRUE, TRUE).out.list) = 2

\* C3: with softDeletes, delete(id) followed by restore(id) on an existing
\* record returns an outcome carrying the record with deleted_at null, makes
\* default findById(id) return the record again, and leaves every
\* application column and created_at as they were before the delete, in
\* storage and in the record.
C3_DeleteThenRestore ==
  schema.softDeletes =>
    \A id \in IdArgs :
      (Truthy(id) /\ HasRow(store, id.s)) =>
        \A t2 \in now..MaxTime :
          \A r \in {restore(delete(store, now, id, TRUE).store, t2, id, TRUE)} :
            /\ r.out.kind = "msg" /\ r.out.msg = Restored
            /\ r.out.inst.id = id
            /\ r.out.inst.data["deleted_at"] = Null
            /\ Len(r.store) = Len(store)
            /\ \A f \in {findById(r.store, t2, id, FALSE, TRUE).out} :
                  f.kind = "inst" /\ f.inst = r.out.inst
            /\ \A c \in (ColumnNames(schema) \cup {"created_at"}) \cap TableCols(schema) :
                  /\ Row(r.store, id.s)[c] = Row(store, id.s)[c]
                  /\ r.out.inst.data[c] = findById(store, now, id, TRUE, TRUE).out.inst.data[c]

\* A record named A was created, deleted and restored: it is live again
\* and still named A
C3_Witness ==
  /\ schema.softDeletes
  /\ log = <<Did("create", UUID(1)), Did("delete", UUID(1)), Did("restore", UUID(1))>>
  /\ Row(store, UUID(1))["deleted_at"] = SqlNull
  /\ Row(store, UUID(1))["name"] = SqlText("A")
  /\ findById(store, now, Str(UUID(1)), FALSE, TRUE).out.kind = "inst"

\* The id and created_at of every row, in row order
Identity(st) == [i \in 1..Len(st) |-> <<st[i]["id"], Get(RowObject(st[i]), "created_at")>>]

\* st2 holds every row of st with its id and created_at, in the same order
\* and before any new row; a hard DELETE alone may remove rows
IdentityKept(st, st2, sent) ==
  \A kept \in {SelectSeq(Identity(st), LAMBDA x : sent = "DELETE" => HasRow(st2, x[1].s))} :
     /\ Len(kept) <= Len(st2)
     /\ SubSeq(Identity(st2), 1, Len(kept)) = kept

\* A returned record carries the id and created_at of its row in st2
CarriesIdentity(rec, st2) ==
  /\ rec.id.k = "string" /\ HasRow(st2, rec.id.s)
  /\ Get(rec.data, "id") = rec.id
  /\ Get(rec.data, "created_at") = Get(RowObject(Row(st2, rec.id.s)), "created_at")

\* What a call did: identities kept in the table, and carried by the record
\* it returned, if any
CallKeepsIdentity(r) ==
  /\ IdentityKept(store, r.store, r.stmt.op)
  /\ r.out.kind \in {"inst", "this"} => CarriesIdentity(r.out.inst, r.store)
  /\ (r.out.kind = "msg" /\ r.out.inst # NoInst) => CarriesIdentity(r.out.inst, r.store)
  /\ r.out.kind = "list" => \A i \in 1..Len(r.out.list) : CarriesIdentity(r.out.list[i], r.store)

\* C4: no static update, instance update, save, delete or restore changes
\* the id or the created_at of a row that exists: in every reachable state,
\* whichever call comes next, every row keeps both in storage (a hard
\* delete only removes rows), and every record any call returns (create and
\* the reads included) carries the id and created_at of its row.
C4_IdAndCreatedAtStable ==
  /\ \A d \in UpdateInputs, ok \in BOOLEAN : CallKeepsIdentity(update(store, now, d, ok))
  /\ \A id \in IdArgs, ok \in BOOLEAN :
        /\ CallKeepsIdentity(delete(store, now, id, ok))
        /\ CallKeepsIdentity(restore(store, now, id, ok))
        /\ \A incl \in BOOLEAN : CallKeepsIdentity(findById(store, now, id, incl, ok))
  /\ \A h \in Handles, ok \in BOOLEAN :
        /\ \A p \in PartialInputs : CallKeepsIdentity(instUpdate(store, now, inst[h], p, ok))
        /\ CallKeepsIdentity(instDelete(store, now, inst[h], ok))
        /\ \A u \in UUIDs(store) : CallKeepsIdentity(save(store, now, inst[h], u, ok))
  /\ \A d \in CreateInputs, u \in UUIDs(store), ok \in BOOLEAN :
        CallKeepsIdentity(create(store, now, d, u, ok))
  /\ \A incl \in BOOLEAN : CallKeepsIdentity(all(store, now, incl, TRUE))

\* A record created at time 0 was updated at time 1: its row still has the
\* id and created_at of the create, with a newer updated_at
C4_Witness ==
  /\ schema.timestamps
  /\ log = <<Did("create", UUID(1)), Did("update", UUID(1))>>
  /\ Row(store, UUID(1))["created_at"] = SqlText(TimeText(0))
  /\ Row(store, UUID(1))["updated_at"] = SqlText(TimeText(1))
  /\ inst[1].id = Str(UUID(1)) /\ inst[1].data["created_at"] = Str(TimeText(0))

\* The row of id was last written before the engine time t
WrittenBefore(st, id, t) ==
  /\ HasRow(st, id.s)
  /\ \A c \in {"created_at", "updated_at", "deleted_at"} \cap TableCols(schema) :
        Row(st, id.s)[c] # SqlText(TimeText(t))

\* The call r on the record id stamped it: updated_at is the engine time in
\* storage, differs from what it was, and the returned record carries it
Stamped(id, r) ==
  /\ Row(r.store, id.s)["updated_at"] = SqlText(TimeText(now))
  /\ Row(r.store, id.s)["updated_at"] # Row(store, id.s)["updated_at"]
  /\ r.out.kind \in {"inst", "this"}
  /\ r.out.inst.data["updated_at"] = Str(TimeText(now))

\* C5 as stated: with timestamps, every update of an existing record (static
\* update, instance update, save with an id) at an engine time later than
\* the row's last write leaves updated_at equal to that engine time, in
\* storage and in the returned record.
C5_EveryUpdateStamps ==
  schema.timestamps =>
    /\ \A d \in UpdateInputs :
          (Truthy(Get(d, "id")) /\ WrittenBefore(store, Get(d, "id"), now)) =>
            Stamped(d["id"], update(store, now, d, TRUE))
    /\ \A h \in Handles, p \in PartialInputs :
          \A id \in {Get(Spread(inst[h].data, p), "id")} :
            (Truthy(id) /\ WrittenBefore(store, id, now)) =>
              Stamped(id, instUpdate(store, now, inst[h], p, TRUE))
    /\ \A h \in Handles :
          (Truthy(Get(inst[h].data, "id")) /\ WrittenBefore(store, Get(inst[h].data, "id"), now)) =>
            Stamped(inst[h].data["id"], save(store, now, inst[h], FreshUUID(store), TRUE))

\* C5, amended: the same for every update that sends an UPDATE statement,
\* that is, whose field map owns a schema column other than id (one that
\* owns none only reads the record back and leaves updated_at as it was).
C5_SentUpdateStamps ==
  schema.timestamps =>
    /\ \A d \in UpdateInputs :
          (/\ Truthy(Get(d, "id")) /\ WrittenBefore(store, Get(d, "id"), now)
           /\ update(store, now, d, TRUE).stmt.op = "UPDATE") =>
            Stamped(d["id"], update(store, now, d, TRUE))
    /\ \A h \in Handles, p \in PartialInputs :
          \A id \in {Get(Spread(inst[h].data, p), "id")} :
            (/\ Truthy(id) /\ WrittenBefore(store, id, now)
             /\ instUpdate(store, now, inst[h], p, TRUE).stmt.op = "UPDATE") =>
              Stamped(id, instUpdate(store, now, inst[h], p, TRUE))
    /\ \A h \in Handles :
          (/\ Truthy(Get(inst[h].data, "id")) /\ WrittenBefore(store, Get(inst[h].data, "id"), now)
           /\ save(store, now, inst[h], FreshUUID(store), TRUE).stmt.op = "UPDATE") =>
            Stamped(inst[h].data["id"], save(store, now, inst[h], FreshUUID(store), TRUE))

\* update(partial) on the instance of a record created at time 0 ran at
\* time 1: the row and the instance carry updated_at of time 1
C5_Witness ==
  /\ schema.timestamps
  /\ log = <<Did("create", UUID(1)), Did("inst.update", UUID(1))>>
  /\ Row(store, UUID(1))["updated_at"] = SqlText(TimeText(1))
  /\ inst[1].data["updated_at"] = Str(TimeText(1))
  /\ inst[1].data["created_at"] = Str(TimeText(0))

\* An instance that has no id: this.id null and no id key in its data
NoId(self) == self.id = Null /\ "id" \notin DOMAIN self.data

\* A field value as the codec reads it back: a Date as its ISO string
AsReadBack(v) == IF v.k = "Date" THEN Str(v.s) ELSE v

\* save() inserted one row and returned the instance it was called on, which
\* now has the id of the new row
SavedAsNew(r) ==
  /\ r.stmt.op = "INSERT"
  /\ Len(r.store) = Len(store) + 1 /\ SubSeq(r.store, 1, Len(store)) = store
  /\ r.out = OutThis(r.self)
  /\ Truthy(r.self.id) /\ r.self.id.k = "string"
  /\ Get(r.self.data, "id") = r.self.id
  /\ r.store[Len(r.store)]["id"] = SqlText(r.self.id.s)

OwnRowOnly(self, r) ==
  /\ r.stmt.op = "UPDATE" /\ r.stmt.whereVal = self.data["id"].s
  /\ Len(r.store) = Len(store)
  /\ \A i \in 1..Len(store) : store[i]["id"] # SqlText(self.data["id"].s) => r.store[i] = store[i]
  /\ r.out.kind = "this" =>
       /\ r.out.inst = r.self
       /\ r.self.id = self.data["id"]
       /\ r.self.data = serializeData(RowObject(Row(r.store, self.data["id"].s)), schema)

\* C7 as stated: save() on an instance whose data.id is non-empty, and
\* instance update(partial), never insert: they send an UPDATE for that id,
\* the number of rows is unchanged, and on success they return the same
\* instance with unchanged id and with the data of the row the engine
\* returned.
C7_InstanceWritesOwnRow ==
  \A h \in Handles :
    Truthy(Get(inst[h].data, "id")) =>
      /\ \A p \in PartialInputs : OwnRowOnly(inst[h], instUpdate(store, now, inst[h], p, TRUE))
      /\ OwnRowOnly(inst[h], save(store, now, inst[h], FreshUUID(store), TRUE))

\* The columns an UPDATE statement assigns, updated_at aside
Assigned(stmt) == {stmt.cols[i] : i \in 1..Len(stmt.cols)} \ {"updated_at"}

\* C8: a static update whose field map owns the key set K produces an
\* assignment list of exactly the schema columns in K other than id, each
\* once, and after it every schema column not in K has the storage value it
\* had, in every row.
C8_UpdateAssignsOwnedColumns ==
  \A d \in UpdateInputs :
    /\ Truthy(Get(d, "id")) =>
         \A a \in {deserializeData(d, schema, "").attributes} :
            /\ {a[i].col : i \in 1..Len(a)} = (DOMAIN d \cap ColumnNames(schema)) \ {"id"}
            /\ Len(a) = Cardinality((DOMAIN d \cap ColumnNames(schema)) \ {"id"})
    /\ \A ok \in BOOLEAN :
         \A r \in {update(store, now, d, ok)} :
            /\ r.stmt.op = "UPDATE" => Assigned(r.stmt) = (DOMAIN d \cap ColumnNames(schema)) \ {"id"}
            /\ Len(r.store) = Len(store)
            /\ \A i \in 1..Len(store) :
                 \A c \in ColumnNames(schema) \ DOMAIN d : r.store[i][c] = store[i][c]

\* A record created with name A and a value in extra was updated with
\* { id, name: B }: name is B and extra is what the create stored
C8_Witness ==
  /\ log = <<Did("create", UUID(1)), Did("update", UUID(1))>>
  /\ inst[1].data["name"] = Str("A") /\ inst[1].data["extra"] = ExtraV1
  /\ Row(store, UUID(1))["name"] = SqlText("B")
  /\ Row(store, UUID(1))["extra"] = SqlText(JSONstringify(ExtraV1))

\* update({ id, extra: null }) and update({ id, name: null })
ExtraNull == FieldMap(Str(UUID(1)), Absent, Null)
NameNull == FieldMap(Str(UUID(1)), Null, Absent)

\* C9 as stated: for a column of any logical type, a static update whose
\* field map carries the column with an explicit null sets it to SQL NULL
\* in storage.
C9_NullSetsSqlNull ==
  HasRow(store, UUID(1)) =>
    /\ Row(update(store, now, ExtraNull, TRUE).store, UUID(1))["extra"] = SqlNull
    /\ Row(update(store, now, NameNull, TRUE).store, UUID(1))["name"] = SqlNull

\* C9, amended: an explicit null sets a string, number, boolean or date
\* column to SQL NULL and a jsonb column to the JSON text null; either way
\* the returned record reads null in that column, and a column whose key is
\* absent keeps its storage value.
C9_NullSetsNullOrJsonNull ==
  HasRow(store, UUID(1)) =>
    /\ \A r \in {update(store, now, ExtraNull, TRUE)} :
          /\ Row(r.store, UUID(1))["extra"] =
               IF ColumnType(schema, "extra") = "jsonb" THEN SqlText("null") ELSE SqlNull
          /\ r.out.kind = "inst" /\ r.out.inst.data["extra"] = Null
          /\ Row(r.store, UUID(1))["name"] = Row(store, UUID(1))["name"]
    /\ \A r \in {update(store, now, NameNull, TRUE)} :
          /\ Row(r.store, UUID(1))["name"] = SqlNull
          /\ r.out.kind = "inst" /\ r.out.inst.data["name"] = Null
          /\ Row(r.store, UUID(1))["extra"] = Row(store, UUID(1))["extra"]

\* On a jsonb schema a record created with a JSON value in extra was
\* updated with { id, extra: null }: the column holds the JSON text null
C9_Witness ==
  /\ ColumnType(schema, "extra") = "jsonb"
  /\ log = <<Did("create", UUID(1)), Did("update", UUID(1))>>
  /\ inst[1].data["extra"] = JsonVals[1]
  /\ Row(store, UUID(1))["extra"] = SqlText("null")
  /\ findById(store, now, Str(UUID(1)), TRUE, TRUE).out.inst.data["extra"] = Null

\* No two rows share an id
NoSharedId(st) == \A i, j \in 1..Len(st) : st[i]["id"] = st[j]["id"] => i = j

\* C10: every successful create adds exactly one row, after the rows that
\* were there, whose id is non-empty and is the id of no earlier row, and
\* returns a record carrying that id; no two rows ever share an id.
C10_CreateAddsOneFreshRow ==
  /\ NoSharedId(store)
  /\ \A d \in CreateInputs, u \in UUIDs(store), ok \in BOOLEAN :
        \A r \in {create(store, now, d, u, ok)} :
           r.out.kind = "inst" =>
             /\ Len(r.store) = Len(store) + 1 /\ SubSeq(r.store, 1, Len(store)) = store
             /\ \A n \in {r.store[Len(r.store)]} :
                   /\ n["id"].k = "TEXT" /\ n["id"].s # ""
                   /\ ~HasRow(store, n["id"].s)
                   /\ r.out.inst.id = Str(n["id"].s)
                   /\ r.out.inst.data["id"] = Str(n["id"].s)

\* Two creates were served: two rows with different ids, the second
\* carried by the record the second create returned
C10_Witness ==
  /\ log = <<Did("create", UUID(1)), Did("create", UUID(2))>>
  /\ Len(store) = 2 /\ store[1]["id"] # store[2]["id"]
  /\ inst[1].id = Str(store[2]["id"].s)

\* The logical type of the extra column
ExtraType == ColumnType(schema, "extra")

\* C11: for every logical value v (null included) of a boolean, jsonb,
\* number or string column, decoding the storage value that encoding v
\* produced gives back v: whenever the codec decodes what it has just
\* encoded, the decoded value is the value that was encoded.
C11_CodecRoundTrip ==
  ExtraType \in {"boolean", "jsonb", "number", "string"} =>
    \A i \in 2..Len(log) :
      (log[i].op = "decode" /\ log[i - 1].op = "encode" /\ log[i].in = log[i - 1].out) =>
        log[i].out = log[i - 1].in

\* On a boolean column false was encoded (as the integer 0) and decoded
\* back to false
C11_Witness ==
  /\ ExtraType = "boolean"
  /\ log = <<CodecCall("encode", Bool(FALSE), Num("0")), CodecCall("decode", Num("0"), Bool(FALSE))>>

\* create({ name, extra: d }) for the Date d
WithDate == FieldMap(Absent, Str("A"), DateVals[1])

\* C12: on a date column, creating a record with a Date value d and reading
\* it back, from the create result or with findById, yields the ISO-8601
\* string of d and not a Date; encoding that string is a passthrough and so
\* is decoding it.
C12_DateReadsBackAsIsoString ==
  ExtraType = "date" =>
    /\ \A r \in {create(store, now, WithDate, FreshUUID(store), TRUE)} :
          /\ r.out.kind = "inst"
          /\ r.out.inst.data["extra"] = Str(DateVals[1].s)
          /\ \A f \in {findById(r.store, now, r.out.inst.id, FALSE, TRUE).out} :
                f.kind = "inst" /\ f.inst.data["extra"] = Str(DateVals[1].s)
    /\ processValueForStorage(DateVals[1], "date") = Str(DateVals[1].s)
    /\ \A v \in {Str(DateVals[1].s), DateVals[2]} :
          /\ processValueForStorage(v, "date") = v
          /\ processValueFromStorage(v, "date") = v
          /\ processValueForStorage(processValueFromStorage(processValueForStorage(v, "date"), "date"), "date")
               = processValueForStorage(v, "date")

\* On the date schema create({ name, extra: d }) was served: the row holds
\* the ISO text of d and the record returned carries it as a string
C12_Witness ==
  /\ ExtraType = "date"
  /\ log = <<Did("create", UUID(1))>>
  /\ Row(store, UUID(1))["extra"] = SqlText(DateVals[1].s)
  /\ inst[1].data["extra"] = Str(DateVals[1].s)
  /\ findById(store, now, Str(UUID(1)), FALSE, TRUE).out.inst.data["extra"] = Str(DateVals[1].s)

NotEnabled == "Soft deletes are not enabled"
MissingId == "ID is missing."

\* C13: on a schema with softDeletes = false, restore(id) sends no statement,
\* leaves the table unchanged and returns a failure outcome that carries no
\* record (the not-enabled message for a non-empty id), whatever the
\* capability would answer.
C13_RestoreNeedsSoftDeletes ==
  ~schema.softDeletes =>
    \A id \in IdArgs, ok \in BOOLEAN :
      \A r \in {restore(store, now, id, ok)} :
        /\ r.stmt = NoStmt
        /\ r.store = store
        /\ r.out = OutMsg(IF Truthy(id) THEN NotEnabled ELSE MissingId)
        /\ r.out.inst = NoInst /\ r.out.msg # Restored

\* On a schema without soft deletes a row exists and restore of its id is
\* refused (a refused restore leaves the state as it is, so what it returns
\* in a state is what it returned on the step into that state)
C13_Witness ==
  /\ ~schema.softDeletes
  /\ log = <<Did("create", UUID(1))>> /\ ops = 2
  /\ HasRow(store, UUID(1))
  /\ restore(store, now, Str(UUID(1)), TRUE) = Ret(store, NoStmt, OutMsg(NotEnabled))

\* An outcome that tells a missing identity from "no row has this id": the
\* call r made without a usable id sent nothing, changed nothing, and
\* returned something other than unknown, the outcome for an id no row has
ToldMissing(r, unknown) ==
  /\ r.stmt = NoStmt
  /\ r.store = store
  /\ r.out # unknown

\* Ids that are absent or empty, and a well-formed id no row has
NoIds == {Null, Undefined, Str("")}
UnknownIds == {id \in {Str(UUID(1)), Str(UUID(2)), Str(UUID(3))} : ~HasRow(store, id.s)}

\* C14 as stated: static update, static delete and restore called with an
\* absent or empty id send no statement, leave the table unchanged, and each
\* return a missing-identity failure that differs from the outcome the same
\* operation returns for a well-formed id that matches no row.
C14_MissingIdentityIsTold ==
  \A none \in NoIds, id \in UnknownIds :
    /\ ToldMissing(update(store, now, FieldMap(none, Str("B"), Absent), TRUE),
                   update(store, now, FieldMap(id, Str("B"), Absent), TRUE).out)
    /\ ToldMissing(update(store, now, FieldMap(Absent, Str("B"), Absent), TRUE),
                   update(store, now, FieldMap(id, Str("B"), Absent), TRUE).out)
    /\ ToldMissing(delete(store, now, none, TRUE), delete(store, now, id, TRUE).out)
    /\ ToldMissing(restore(store, now, none, TRUE), restore(store, now, id, TRUE).out)

\* The part of C14 that holds of the code: delete and restore
C14_DeleteRestoreTellMissing ==
  \A none \in NoIds, id \in UnknownIds :
    /\ ToldMissing(delete(store, now, none, TRUE), delete(store, now, id, TRUE).out)
    /\ ToldMissing(restore(store, now, none, TRUE), restore(store, now, id, TRUE).out)
    /\ update(store, now, FieldMap(none, Str("B"), Absent), TRUE) = Ret(store, NoStmt, OutNull)

CannotDelete == "Instance data is missing an ID, cannot delete."
CannotUpdate == "Instance data is missing an ID, cannot update."

\* The instances the application holds, and new instances whose id is
\* empty or null
IdlessInstances ==
  {i \in {inst[h] : h \in Handles}
         \cup {NewModel(FieldMap(none, Str("A"), Absent)) : none \in {Null, Str(""), Absent}} :
     ~Truthy(Get(i.data, "id"))}

\* C15: delete() and update(partial) on an instance whose data.id is absent
\* or empty raise a ModelError ('Instance data is missing an ID, cannot
\* delete.' / '... cannot update.') before any statement is sent: the table
\* and the instance are unchanged.
C15_InstanceWithoutIdRaises ==
  \A self \in IdlessInstances, ok \in BOOLEAN :
    /\ \A r \in {instDelete(store, now, self, ok)} :
          /\ r.out = OutThrow(CannotDelete)
          /\ r.stmt = NoStmt /\ r.store = store /\ r.self = self
    /\ \A p \in PartialInputs :
          \A r \in {instUpdate(store, now, self, p, ok)} :
             /\ r.out = OutThrow(CannotUpdate)
             /\ r.stmt = NoStmt /\ r.store = store /\ r.self = self

\* A row exists, new Model({ name, extra }) has no id, and delete() on it
\* raised (a call that raises leaves the state as it is, so what it returns
\* in a state is what it returned on the step into that state)
C15_Witness ==
  /\ log = <<Did("create", UUID(1))>> /\ ops = 3
  /\ inst[2].id = Null /\ inst[2].data = FieldMap(Absent, Str("A"), ExtraV1)
  /\ instDelete(store, now, inst[2], TRUE).out = OutThrow(CannotDelete)
  /\ instDelete(store, now, inst[2], TRUE).store = store

\* The outcome of a call that the capability failed (success = false)
\* differs from the outcome of the same call served in the same state
FailureTold(failed, served) == failed.stmt # NoStmt => failed.out # served.out

\* C16 as stated: for every facade operation, when the capability answers
\* success = false the caller receives an outcome that differs from what the
\* operation returns when the capability answers success = true.
C16_FailureIsTold ==
  /\ \A incl \in BOOLEAN :
        /\ FailureTold(all(store, now, incl, FALSE), all(store, now, incl, TRUE))
        /\ \A v \in Range(StringVals) :
              /\ FailureTold(findBy(store, now, "name", v, incl, FALSE), findBy(store, now, "name", v, incl, TRUE))
              /\ FailureTold(findOne(store, now, "name", v, incl, FALSE), findOne(store, now, "name", v, incl, TRUE))
        /\ \A id \in IdArgs :
              FailureTold(findById(store, now, id, incl, FALSE), findById(store, now, id, incl, TRUE))
  /\ \A id \in IdArgs :
        /\ FailureTold(delete(store, now, id, FALSE), delete(store, now, id, TRUE))
        /\ FailureTold(restore(store, now, id, FALSE), restore(store, now, id, TRUE))
        /\ Truthy(id) => FailureTold(query(store, now, id.s, FALSE), query(store, now, id.s, TRUE))
  /\ \A d \in UpdateInputs : FailureTold(update(store, now, d, FALSE), update(store, now, d, TRUE))
  /\ \A d \in CreateInputs :
        FailureTold(create(store, now, d, FreshUUID(store), FALSE), create(store, now, d, FreshUUID(store), TRUE))

\* The part of C16 that holds of the code: create, delete and query
C16_CreateDeleteQueryTellFailure ==
  /\ \A id \in IdArgs :
        /\ FailureTold(delete(store, now, id, FALSE), delete(store, now, id, TRUE))
        /\ Truthy(id) => FailureTold(query(store, now, id.s, FALSE), query(store, now, id.s, TRUE))
  /\ \A d \in CreateInputs :
        FailureTold(create(store, now, d, FreshUUID(store), FALSE), create(store, now, d, FreshUUID(store), TRUE))

\* productSchema: name has validation { min: 3 }
NameMin == 3

\* The schema's validation rules reject the payload: a name shorter than min
Rejected(data) ==
  "name" \in DOMAIN data /\ data["name"].k = "string" /\ Len(data["name"].s) < NameMin

\* C17 as stated: create with a payload the schema's validation rules reject
\* raises a validation error and sends no INSERT, so no row is added.
C17_CreateValidates ==
  \A d \in CreateInputs, ok \in BOOLEAN :
    Rejected(d) =>
      \A r \in {create(store, now, d, FreshUUID(store), ok)} :
        /\ r.out.kind = "throw"
        /\ r.stmt = NoStmt
        /\ r.store = store

\* C18: findById, findOne, findBy and all never change the table: whatever
\* their arguments and whatever the capability answers, every row and every
\* column (updated_at and deleted_at included) is after the call what it
\* was before.
C18_FindsLeaveTheTable ==
  \A incl \in BOOLEAN, ok \in BOOLEAN :
    /\ all(store, now, incl, ok).store = store
    /\ \A id \in IdArgs \cup {Str(UUID(3))} : findById(store, now, id, incl, ok).store = store
    /\ \A column \in {"id", "name", "extra", "nope"}, v \in Range(StringVals) \cup {Str(UUID(1)), Null} :
          /\ findOne(store, now, column, v, incl, ok).store = store
          /\ findBy(store, now, column, v, incl, ok).store = store

\* A record was created at time 0 and a find came at time 1 (a third call
\* that left the table and the instances as they were): the finds return
\* the record and the row still has its updated_at of time 0
C18_Witness ==
  /\ schema.timestamps
  /\ log = <<Did("create", UUID(1))>> /\ ops = 3 /\ now = 1
  /\ Row(store, UUID(1))["updated_at"] = SqlText(TimeText(0))
  /\ findById(store, now, Str(UUID(1)), TRUE, TRUE).out.kind = "inst"
  /\ Len(all(store, now, TRUE, TRUE).out.list) = 1

\* a is an initial part of b
IsPrefix(a, b) == Len(a) <= Len(b) /\ SubSeq(b, 1, Len(a)) = a

\* st2 is st with nothing changed but deleted_at
OnlyDeletedAtSet(st, st2) ==
  /\ Len(st2) = Len(st)
  /\ \A i \in 1..Len(st) : \A c \in (DOMAIN st[i]) \ {"deleted_at"} : st2[i][c] = st[i][c]

\* What delete(id) does to the table: with soft deletes it sets deleted_at
\* and nothing else; without, it removes the row, which findById then does
\* not find even with includeDeleted
DeleteKeepsOrPurges ==
  \A id \in IdArgs, ok \in BOOLEAN :
    \A d \in {delete(store, now, id, ok)} :
      IF schema.softDeletes
        THEN /\ OnlyDeletedAtSet(store, d.store)
             /\ (ok /\ Truthy(id) /\ HasRow(store, id.s)) =>
                   Row(d.store, id.s)["deleted_at"] = SqlText(TimeText(now))
        ELSE (ok /\ Truthy(id) /\ HasRow(store, id.s)) =>
               /\ ~HasRow(d.store, id.s)
               /\ Len(d.store) = Len(store) - 1
               /\ findById(d.store, now, id, TRUE, TRUE).out = OutNull

\* C19: on a schema with softDeletes = true no call removes a row: the
\* stored ids only grow, in every step, and delete only sets deleted_at; on
\* a schema with softDeletes = false delete(id) removes the row, after
\* which findById(id, includeDeleted = true) returns null.
C19_SoftDeleteKeepsRows ==
  /\ []DeleteKeepsOrPurges
  /\ [][schema.softDeletes => IsPrefix(RowIds(store), RowIds(store'))]_vars

\* Two records were created and the first deleted on a soft-delete schema:
\* both rows are there, the first with deleted_at set
C19_Witness ==
  /\ schema.softDeletes
  /\ log = <<Did("create", UUID(1)), Did("create", UUID(2)), Did("delete", UUID(1))>>
  /\ RowIds(store) = <<Str(UUID(1)), Str(UUID(2))>>
  /\ store[1]["deleted_at"] # SqlNull /\ store[2]["deleted_at"] = SqlNull

\* C20 as stated: the codec never raises: every encode and every decode
\* returns a value, also when the text a jsonb column holds is not valid
\* JSON, so reading a row with findById or all never throws because of a
\* stored value.
C20_CodecNeverRaises ==
  /\ \A i \in 1..Len(log) : log[i].out # Thrown
  /\ \A id \in IdArgs : findById(store, now, id, TRUE, TRUE).out # OutThrow("SyntaxError")
  /\ all(store, now, TRUE, TRUE).out # OutThrow("SyntaxError")

\* The part of C20 that holds of the code: encoding never raises, and
\* decoding raises only for a jsonb text that is not valid JSON
C20_OnlyInvalidJsonRaises ==
  /\ \A i \in 1..Len(log) :
        log[i].out = Thrown =>
          /\ log[i].op = "decode" /\ ExtraType = "jsonb"
          /\ log[i].in.k = "string" /\ JSONparse(log[i].in.s) = Thrown
  /\ (\A i \in 1..Len(store) : store[i]["extra"] # SqlText("{bad")) =>
        /\ \A id \in IdArgs : findById(store, now, id, TRUE, TRUE).out # OutThrow("SyntaxError")
        /\ all(store, now, TRUE, TRUE).out # OutThrow("SyntaxError")

\* The string values checked: plain ones, and the two with a single quote
PlainTexts == {Str("A"), Str("B"), Str(UUID(1))}
QuotedTexts == {Str(QuoteText), Str(InjectText)}

\* The rows of st whose column col holds the text of v
RowsHolding(st, col, v) == SelectSeq(st, LAMBDA r : r[col] = SqlText(v.s))

\* Rows a and b agree outside the columns cols
SameExcept(a, b, cols) == \A c \in (DOMAIN a) \ cols : a[c] = b[c]

\* create({ name: v }) appends one row holding v in name and leaves the
\* other rows alone
CreateStores(v) ==
  \A r \in {create(store, now, FieldMap(Absent, v, Absent), FreshUUID(store), TRUE)} :
     /\ Len(r.store) = Len(store) + 1
     /\ SubSeq(r.store, 1, Len(store)) = store
     /\ r.store[Len(r.store)]["name"] = SqlText(v.s)
     /\ r.store[Len(r.store)]["extra"] = SqlNull
     /\ r.out.kind = "inst" /\ r.out.inst.data["name"] = v

\* update({ id, name: v }) stores v in the name of the rows with that id
\* and changes nothing else but their updated_at
UpdateStores(v) ==
  \A id \in {Str(UUID(1)), Str(UUID(2))} :
    \A r \in {update(store, now, FieldMap(id, v, Absent), TRUE)} :
       /\ Len(r.store) = Len(store)
       /\ \A i \in 1..Len(store) :
             IF store[i]["id"] = SqlText(id.s)
               THEN /\ r.store[i]["name"] = SqlText(v.s)
                    /\ SameExcept(r.store[i], store[i], {"name", "updated_at"})
               ELSE r.store[i] = store[i]

\* findOne, findBy and findById with v as the lookup value read exactly
\* the rows whose column equals v
FindMatches(v) ==
  /\ \A r \in {findBy(store, now, "name", v, TRUE, TRUE)} :
        /\ r.store = store
        /\ r.out.kind = "list"
        /\ IdsOf(r.out.list) = RowIds(RowsHolding(store, "name", v))
  /\ \A r \in {findOne(store, now, "name", v, TRUE, TRUE)} :
        /\ r.store = store
        /\ IF Len(RowsHolding(store, "name", v)) = 0 THEN r.out = OutNull
           ELSE r.out.kind = "inst" /\ r.out.inst.data["name"] = v
  /\ \A r \in {findById(store, now, v, TRUE, TRUE)} :
        /\ r.store = store
        /\ IF Len(RowsHolding(store, "id", v)) = 0 THEN r.out = OutNull
           ELSE r.out.kind = "inst" /\ r.out.inst.id = v

\* update and delete addressed to id v leave every row with another id as
\* it was
OthersUntouched(v) ==
  \A r \in {update(store, now, FieldMap(v, Str("B"), Absent), TRUE), delete(store, now, v, TRUE)} :
     SelectSeq(r.store, LAMBDA row : row["id"] # SqlText(v.s))
       = SelectSeq(store, LAMBDA row : row["id"] # SqlText(v.s))

ValuesKeepStructure(V) ==
  \A v \in V : CreateStores(v) /\ UpdateStores(v) /\ FindMatches(v) /\ OthersUntouched(v)

\* C21 as stated: values never change the structure of a generated
\* statement: for any string field value or lookup value, including one
\* with a single quote, create and update store exactly that value in the
\* intended column of the intended row, findOne, findBy and findById match
\* only the rows whose column equals the value, and no other row or column
\* is read, changed or deleted.
C21_ValuesKeepStructure == ValuesKeepStructure(PlainTexts \cup QuotedTexts)

\* The part of C21 that holds of the code: values without a single quote
C21_PlainValuesKeepStructure == ValuesKeepStructure(PlainTexts)

\* The bookkeeping columns, and those of them the table has
Bookkeeping == {"created_at", "updated_at", "deleted_at"}
Kept == Bookkeeping \cap TableCols(schema)

\* What the calls that return records answer on the current table, each
\* with the table after the call: find by id and by name, all, create and
\* update, the finds with includeDeleted = incl
Answers(incl) ==
  {findById(store, now, id, incl, TRUE) : id \in IdArgs}
    \cup {findOne(store, now, "name", v, incl, TRUE) : v \in PlainTexts}
    \cup {findBy(store, now, "name", v, incl, TRUE) : v \in PlainTexts}
    \cup {all(store, now, incl, TRUE)}
    \cup {create(store, now, d, FreshUUID(store), TRUE) : d \in CreateInputs}
    \cup {update(store, now, d, TRUE) : d \in UpdateInputs}

\* The records of an answer
RecordsIn(r) ==
  IF r.out.kind = "inst" THEN {r.out.inst}
  ELSE IF r.out.kind = "list" THEN Range(r.out.list)
  ELSE {}

\* The record carries the bookkeeping columns of its row in table st
WithBookkeeping(rec, st) ==
  /\ Kept \subseteq DOMAIN rec.data
  /\ HasRow(st, rec.id.s)
  /\ \A c \in Kept : rec.data[c] = RowObject(Row(st, rec.id.s))[c]

RecordsOf(r) ==
  RecordsIn(r) \cup (IF r.out.kind = "msg" /\ r.out.inst # NoInst THEN {r.out.inst} ELSE {})

\* Every schema column has an entry, no entry is undefined, and a column
\* the row holds as NULL reads null
Total(rec, st) ==
  /\ ColumnNames(schema) \subseteq DOMAIN rec.data
  /\ \A x \in DOMAIN rec.data : rec.data[x] # Undefined
  /\ HasRow(st, rec.id.s)
  /\ \A c \in ColumnNames(schema) : Row(st, rec.id.s)[c] = SqlNull => rec.data[c] = Null

\* The raw rows the engine can hand back for row: the row itself, and the
\* row with column c left out or undefined
RawRows(row, c) ==
  {RowObject(row), Without(RowObject(row), c), [RowObject(row) EXCEPT ![c] = Undefined]}

\* C23: every record produced from a storage row has an entry for every
\* column declared in the schema: a column the raw row omits or holds as
\* NULL is present with value null, and no entry of the record is ever
\* undefined, whichever operation (create, update, restore, find, all)
\* produced it.
C23_RecordsAreTotal ==
  /\ \A incl \in BOOLEAN : \A r \in Answers(incl) : \A rec \in RecordsOf(r) : Total(rec, r.store)
  /\ \A id \in IdArgs : \A r \in {restore(store, now, id, TRUE)} :
        \A rec \in RecordsOf(r) : Total(rec, r.store)
  /\ \A i \in 1..Len(store) : \A c \in ColumnNames(schema) \ {"id"} :
        \A raw \in RawRows(store[i], c) :
           \A rec \in {createModelInstance(serializeData(raw, schema))} :
              /\ ColumnNames(schema) \subseteq DOMAIN rec.data
              /\ \A x \in DOMAIN rec.data : rec.data[x] # Undefined
              /\ c \notin DOMAIN raw \/ raw[c] = Undefined => rec.data[c] = Null

\* A record created with a name only was soft-deleted and restored: its
\* row holds NULL in extra, and the record restore and findById hand back
\* has extra = null
C23_Witness ==
  /\ log = <<Did("create", UUID(1)), Did("delete", UUID(1)), Did("restore", UUID(1))>>
  /\ Row(store, UUID(1))["extra"] = SqlNull
  /\ \A f \in {findById(store, now, Str(UUID(1)), FALSE, TRUE).out,
               restore(store, now, Str(UUID(1)), TRUE).out} :
        "extra" \in DOMAIN f.inst.data /\ f.inst.data["extra"] = Null

\* Field maps with the id id that own no schema column other than id
IdOnly(id) == {[x \in {"id"} |-> id], [x \in {"id", "nickname"} |-> IF x = "id" THEN id ELSE Str("N")]}

\* C24: a static update whose field-map has a non-empty id but owns no
\* schema column other than id sends no UPDATE statement, leaves the row
\* unchanged (updated_at included), and returns exactly what findById(id)
\* with default arguments returns, which is null when the row is missing
\* or soft-deleted.
C24_EmptyUpdateIsARead ==
  \A id \in {Str(UUID(1)), Str(UUID(2))}, ok \in BOOLEAN :
    \A data \in IdOnly(id) :
      \A r \in {update(store, now, data, ok)} :
         /\ r.stmt.op # "UPDATE"
         /\ r.store = store
         /\ r.out = findById(store, now, id, FALSE, ok).out
         /\ (~HasRow(store, id.s) \/ (schema.softDeletes /\ Row(store, id.s)["deleted_at"] # SqlNull))
               => r.out = OutNull
         /\ (ok /\ HasRow(store, id.s) /\ (schema.softDeletes => Row(store, id.s)["deleted_at"] = SqlNull))
               => r.out.kind = "inst" /\ r.out.inst.id = id

\* A record was created at time 0 and the clock advanced; a third call
\* left the table as it was.  The update with the id alone changes no
\* state, so it is evaluated in the state reached: it returns the record,
\* whose updated_at is still the creation time.
C24_Witness ==
  /\ schema.timestamps
  /\ log = <<Did("create", UUID(1))>> /\ now = 1 /\ ops = 3
  /\ \A r \in {update(store, now, [x \in {"id"} |-> Str(UUID(1))], TRUE)} :
        /\ r.out.kind = "inst"
        /\ r.out.inst.data["updated_at"] = Str(TimeText(0))
        /\ r.store = store

\* The schema columns other than id that the field map holds a value for,
\* in schema order
PresentColumns(data) ==
  SelectSeq(schema.columns, LAMBDA c : c.name # "id" /\ Get(data, c.name) # Undefined)

\* No name occurs twice in the list
NoRepeat(q) == \A i, j \in 1..Len(q) : q[i] = q[j] => i = j

\* The insert generated for data names id and then the present columns,
\* each once, and carries their values in the same order
InsertShape(data) ==
  \A uuid \in UUIDs(store) :
    \A d \in {deserializeData(data, schema, uuid)} :
       /\ d.branch = "insert"
       /\ d.keys = <<"id">> \o [i \in 1..Len(PresentColumns(data)) |-> PresentColumns(data)[i].name]
       /\ NoRepeat(d.keys)
       /\ Len(d.values) = Len(d.keys)
       /\ d.values[1] = LitQuoted(uuid)
       /\ \A i \in 2..Len(d.keys) :
             \A pv \in {processValueForStorage(data[d.keys[i]], ColumnType(schema, d.keys[i]))} :
                d.values[i] = IF pv = Null THEN LitNull ELSE LitQuoted(InsertValueText(pv))
       /\ SubSeq(InsertStmt(d).cols, 1, Len(d.keys)) = d.keys
       /\ SubSeq(InsertStmt(d).lits, 1, Len(d.keys)) = d.values

\* Field maps without a usable id: the id absent or holding one of ids
IdlessMaps(ids) ==
  {FieldMap(i, n, e) : i \in ids, n \in {Absent, Str("A")}, e \in {Absent, Undefined, Null, ExtraV1}}

\* C25 as stated: for every field-map whose id is absent or falsy
\* (undefined, null or empty string), the insert's column list is id
\* followed by exactly the schema columns present in the field-map, in
\* schema order, with every column name (id included) appearing once, and
\* the value list has the same length and order; columns absent from the
\* field-map are omitted rather than set to NULL.
C25_InsertColumnsOnce ==
  \A data \in IdlessMaps({Absent, Undefined, Null, Str("")}) : InsertShape(data)

\* The part of C25 that holds of the code: field-maps whose id is absent or
\* undefined
C25_InsertColumnsWithoutIdKey ==
  \A data \in IdlessMaps({Absent, Undefined}) : InsertShape(data)

\* The columns a statement names
Mentions(stmt) == Range(stmt.cols) \cup {stmt.whereCol}

\* The literal a statement gives column c (the first, as the engine takes it)
LitOf(stmt, c) == stmt.lits[FirstIndex(stmt.cols, c)]

\* C26: with timestamps=true (also the default when the flag is omitted) a
\* create sets created_at and updated_at to the same engine time and an
\* update statement assigns updated_at; with timestamps=false no statement
\* generated by create or update mentions created_at or updated_at.
C26_TimestampsFollowFlag ==
  /\ \A props \in FlagProps :
        SchemaOf("jsonb", props).timestamps
          = ("timestamps" \notin DOMAIN props \/ props["timestamps"])
  /\ \A data \in CreateInputs, ok \in BOOLEAN :
        \A r \in {create(store, now, data, FreshUUID(store), ok)} :
           IF schema.timestamps
             THEN /\ LitOf(r.stmt, "created_at") = LitNow /\ LitOf(r.stmt, "updated_at") = LitNow
                  /\ Len(r.store) > Len(store) =>
                        /\ r.store[Len(r.store)]["created_at"] = SqlText(TimeText(now))
                        /\ r.store[Len(r.store)]["updated_at"] = SqlText(TimeText(now))
             ELSE Mentions(r.stmt) \cap {"created_at", "updated_at"} = {}
  /\ \A data \in UpdateInputs, ok \in BOOLEAN :
        \A r \in {update(store, now, data, ok)} :
           IF schema.timestamps
             THEN r.stmt.op = "UPDATE" =>
                    /\ LitOf(r.stmt, "updated_at") = LitNow
                    /\ "created_at" \notin Mentions(r.stmt)
                    /\ ok => \A i \in 1..Len(store) :
                               store[i]["id"] = SqlText(data["id"].s) =>
                                 r.store[i]["updated_at"] = SqlText(TimeText(now))
             ELSE Mentions(r.stmt) \cap {"created_at", "updated_at"} = {}

\* Under the schema built without flags (timestamps on by default, hard
\* deletes) a record was created at time 0 and updated at time 1
C26_Witness ==
  /\ schema = SchemaOf("jsonb", [x \in {} |-> TRUE])
  /\ log = <<Did("create", UUID(1)), Did("update", UUID(1))>>
  /\ Row(store, UUID(1))["created_at"] = SqlText(TimeText(0))
  /\ Row(store, UUID(1))["updated_at"] = SqlText(TimeText(1))

\* The calls that delete, and those that delete or restore
Deletes == {"delete", "inst.delete"}
Lifecycle == Deletes \cup {"restore"}

\* Positions of the history where a delete or restore changed the row id
LifecycleOf(id) == {k \in 1..Len(log) : log[k].id = id /\ log[k].op \in Lifecycle}

\* The most recent delete or restore applied to id was a delete
LastWasDelete(id) ==
  /\ LifecycleOf(id) # {}
  /\ log[CHOOSE k \in LifecycleOf(id) : \A j \in LifecycleOf(id) : j <= k].op \in Deletes

\* A row's deleted_at is set exactly when its last delete or restore was a
\* delete, and a row with deleted_at set is hidden from a default findById
DeletedIffLastDelete ==
  schema.softDeletes =>
    \A i \in 1..Len(store) :
       /\ (store[i]["deleted_at"] # SqlNull) <=> LastWasDelete(store[i]["id"].s)
       /\ store[i]["deleted_at"] # SqlNull =>
             findById(store, now, Str(store[i]["id"].s), FALSE, TRUE).out = OutNull

\* A step changes the deleted_at of a row only by a delete or a restore,
\* clears it only by a restore, and adds rows with deleted_at null
OnlyLifecycleTouches ==
  schema.softDeletes =>
    /\ Len(store') >= Len(store)
    /\ \A i \in 1..Len(store) :
          store'[i]["deleted_at"] # store[i]["deleted_at"] =>
             /\ Len(log') = Len(log) + 1
             /\ log'[Len(log')].op \in Lifecycle
             /\ store'[i]["deleted_at"] = SqlNull => log'[Len(log')].op = "restore"
    /\ \A i \in (Len(store) + 1)..Len(store') : store'[i]["deleted_at"] = SqlNull

\* C27: on a schema with softDeletes=true, in every reachable state a row's
\* deleted_at is non-null if and only if the most recent delete or restore
\* applied to its id was a delete; create leaves it null and static update,
\* instance update and save never change it, so only restore makes a
\* soft-deleted record visible to default finds again.
C27_DeletedAtFollowsLifecycle == []DeletedIffLastDelete /\ [][OnlyLifecycleTouches]_vars

\* A record was created, soft-deleted and then updated: the update changed
\* the row, which is still soft-deleted and hidden from findById
C27_Witness ==
  /\ schema.softDeletes
  /\ log = <<Did("create", UUID(1)), Did("delete", UUID(1)), Did("update", UUID(1))>>
  /\ Row(store, UUID(1))["deleted_at"] # SqlNull
  /\ Row(store, UUID(1))["name"] = SqlText("B")
  /\ findById(store, now, Str(UUID(1)), FALSE, TRUE).out = OutNull

\* What an update stores in column c for the value v
StoredAs(v, c) ==
  ApplyAffinity(schema, c,
                LitValue(UpdateLiteral(processValueForStorage(v, ColumnType(schema, c))), now))

\* The row holds what an update stores for data in each of the columns cols
RowHolds(data, cols) ==
  \A c \in cols : Row(store, UUID(1))[c] = StoredAs(data[c], c)

\* The two served calls came from different handles and name disjoint
\* sets of columns
TwoDisjointCalls ==
  /\ Len(log) = 2
  /\ log[1].h # log[2].h
  /\ (DOMAIN log[1].partial) \cap (DOMAIN log[2].partial) = {}

\* C28 as stated: when two instance handles of the same persisted row each
\* call instance update(partial) with disjoint sets of columns, then in
\* every interleaving of the two calls the final stored row holds both
\* handles' new values: an instance update writes to storage only the
\* columns named in its partial.
C28_DisjointUpdatesBothKept ==
  TwoDisjointCalls =>
    /\ RowHolds(log[1].partial, DOMAIN log[1].partial)
    /\ RowHolds(log[2].partial, DOMAIN log[2].partial)

\* C28, amended: the final stored row holds, in every schema column other
\* than id, what the call that ran last sent: the values of its partial
\* and, in the other columns, the values its handle held before the call.
\* An instance update writes to storage every schema column of its
\* handle's data merged with its partial, so the other handle's new value
\* is kept only if the last caller's handle had read it.
C28_LastCallWritesItsWholeData ==
  Len(log) > 0 =>
    \A last \in {log[Len(log)]} :
       /\ ColumnNames(schema) \subseteq DOMAIN last.sent
       /\ RowHolds(last.sent, ColumnNames(schema) \ {"id"})
       /\ \A c \in DOMAIN last.partial : last.sent[c] = last.partial[c]

\* Handle 1 set the name to B, then handle 2, still holding the name A, set
\* the extra column: the row has the new extra value and the name A again
C28_Witness ==
  /\ TwoDisjointCalls
  /\ log[1].h = 1 /\ log[1].partial = FieldMap(Absent, Str("B"), Absent)
  /\ log[2].h = 2 /\ log[2].partial = FieldMap(Absent, Absent, ExtraV2)
  /\ Row(store, UUID(1))["name"] = SqlText("A")
  /\ Row(store, UUID(1))["extra"] = StoredAs(ExtraV2, "extra")
  /\ inst[1].data["name"] = Str("B")

\* The four-character text NULL
NullText == Str("NULL")

\* create({ name: v }) followed by findById of the new record returns v:
\* the insert writes NULL only for an encoded null, the row holds the text
\* and the record read back has the string unchanged
StoredAsText(v) ==
  \A d \in {deserializeData(FieldMap(Absent, v, Absent), schema, FreshUUID(store))} :
    /\ d.keys = <<"id", "name">>
    /\ d.values[2] = LitNull <=> processValueForStorage(v, "string") = Null
    /\ \A r \in {create(store, now, FieldMap(Absent, v, Absent), FreshUUID(store), TRUE)} :
          /\ r.out.kind = "inst"
          /\ Row(r.store, FreshUUID(store))["name"] = SqlText(v.s)
          /\ \A f \in {findById(r.store, now, r.out.inst.id, FALSE, TRUE).out} :
                f.kind = "inst" /\ f.inst.data["name"] = v

\* C29 as stated: in an insert a column is written as the unquoted SQL NULL
\* only when its encoded value is null: every non-null string value,
\* including the four-character text NULL, is stored as that text, so
\* create followed by findById returns the string unchanged.
C29_OnlyNullIsWrittenNull ==
  \A v \in PlainTexts \cup {Str("null"), NullText} : StoredAsText(v)

\* The part of C29 that holds of the code: string values other than the
\* text NULL (and without a single quote)
C29_OtherTextsAreStored ==
  /\ \A v \in PlainTexts \cup {Str("null")} : StoredAsText(v)
  /\ \A data \in CreateInputs :
        \A d \in {deserializeData(data, schema, FreshUUID(store))} :
           d.branch = "insert" =>
             \A i \in 2..Len(d.keys) :
                d.values[i] = LitNull =>
                  processValueForStorage(data[d.keys[i]], ColumnType(schema, d.keys[i])) = Null

\* The messages of delete
Purged == "has been successfully deleted."
NotFound == "has not been found"

\* C30 as stated: static delete(id) returns its success message ('has been
\* soft deleted' / 'has been successfully deleted') only if a row with that
\* id existed when the statement ran; for a non-empty id that matches no
\* row it returns the 'has not been found' message, and the store is
\* unchanged.
C30_DeleteSucceedsOnlyOnRows ==
  \A id \in {Str(UUID(1)), Str(UUID(2))}, ok \in BOOLEAN :
    \A r \in {delete(store, now, id, ok)} :
       /\ r.out.msg \in {Soft, Purged} => HasRow(store, id.s)
       /\ ~HasRow(store, id.s) => r.out = OutMsg(NotFound) /\ r.store = store

\* The part of C30 that holds of the code: a delete of an id that matches
\* no row leaves the table unchanged, and the message depends on the
\* capability's success flag alone
C30_DeleteOfUnknownIdChangesNothing ==
  \A id \in {Str(UUID(1)), Str(UUID(2))}, ok \in BOOLEAN :
    \A r \in {delete(store, now, id, ok)} :
       /\ ~HasRow(store, id.s) => r.store = store
       /\ r.out = OutMsg(IF ~ok THEN NotFound ELSE IF schema.softDeletes THEN Soft ELSE Purged)

====
